---- MODULE Spec2Model ----
(***************************************************************************)
(* Resume analysis pipeline: section segmentation (sections.py), skill     *)
(* detection (skills.py), hybrid scoring (hybrid_scoring.py, semantic.py)  *)
(* and role recommendation (recommendations.py), driven by app.py.         *)
(*                                                                         *)
(* Texts are strings; an offset i is a Python offset (0-based), so the     *)
(* character at offset i is SubSeq(s, i+1, i+1) and s[a:b] is              *)
(* SubSeq(s, a+1, b).                                                      *)
(***************************************************************************)
EXTENDS Integers, Sequences, FiniteSets, TLC

----------------------------------------------------------------------------
(* Python str primitives *)

At(s, i) == SubSeq(s, i + 1, i + 1)

Slice(s, a, b) == SubSeq(s, a + 1, b)

Space == {" ", "\n", "\t", "\r", "\f"}

Digit == {"0", "1", "2", "3", "4", "5", "6", "7", "8", "9"}

UpperLetters == "ABCDEFGHIJKLMNOPQRSTUVWXYZ"

LowerLetters == "abcdefghijklmnopqrstuvwxyz"

Upper == {At(UpperLetters, i) : i \in 0..25}

Letter == Upper \cup {At(LowerLetters, i) : i \in 0..25}

Word == Letter \cup Digit \cup {"_"}

ToLower ==
  [c \in Upper |->
     At(LowerLetters, CHOOSE i \in 0..25 : At(UpperLetters, i) = c)]

ToUpper ==
  [c \in Letter \ Upper |->
     At(UpperLetters, CHOOSE i \in 0..25 : At(LowerLetters, i) = c)]

LowerChar(c) == IF c \in Upper THEN ToLower[c] ELSE c

UpperChar(c) == IF c \in Letter \ Upper THEN ToUpper[c] ELSE c

Min(S) == CHOOSE x \in S : \A y \in S : x <= y

Max(S) == CHOOSE x \in S : \A y \in S : x >= y

\* str.lower(), by halves
RECURSIVE lower(_)
lower(s) ==
  IF Len(s) = 0 THEN ""
  ELSE IF Len(s) = 1 THEN LowerChar(s)
  ELSE lower(Slice(s, 0, Len(s) \div 2))
       \o lower(Slice(s, Len(s) \div 2, Len(s)))

\* str.lstrip / str.rstrip / str.strip over the character set cs
lstrip(s, cs) ==
  Slice(s, Min({i \in 0..Len(s) : i = Len(s) \/ At(s, i) \notin cs}), Len(s))

rstrip(s, cs) ==
  Slice(s, 0, Len(s) - Min({k \in 0..Len(s) :
                              k = Len(s) \/ At(s, Len(s) - 1 - k) \notin cs}))

strip(s) == rstrip(lstrip(s, Space), Space)

\* str.find(sub): offset of the first occurrence of sub in s, -1 if none
find(s, sub) ==
  LET hits == {i \in 0..(Len(s) - Len(sub)) :
                 /\ sub # "" => At(s, i) = At(sub, 0)
                 /\ Slice(s, i, i + Len(sub)) = sub}
  IN  IF hits = {} THEN -1 ELSE Min(hits)

\* sub in s
contains(s, sub) == find(s, sub) >= 0

----------------------------------------------------------------------------
(* Python re: a backtracking matcher.  Ends(r, s, i, fl) is the sequence   *)
(* of offsets at which a match of r starting at offset i can end, in the   *)
(* order the backtracking engine tries them (the first is the match that   *)
(* re returns when nothing follows r).                                     *)

Lit(w) == [k |-> "lit", w |-> w]

Cls(cs) == [k |-> "cls", cs |-> cs]

Cat(rs) == [k |-> "cat", rs |-> rs]

Alt(rs) == [k |-> "alt", rs |-> rs]

Opt(r) == [k |-> "opt", r |-> r]

Star(r) == [k |-> "star", r |-> r]

Plus(r) == [k |-> "plus", r |-> r]

Bol == [k |-> "bol"]

Eol == [k |-> "eol"]

Wb == [k |-> "wb"]

IGNORECASE == [ic |-> TRUE, ml |-> FALSE]

IGNORECASE_MULTILINE == [ic |-> TRUE, ml |-> TRUE]

NOFLAGS == [ic |-> FALSE, ml |-> FALSE]

AddNew(seq, x) ==
  IF \E n \in 1..Len(seq) : seq[n] = x THEN seq ELSE Append(seq, x)

RECURSIVE Merge(_, _)
Merge(a, b) == IF b = <<>> THEN a ELSE Merge(AddNew(a, Head(b)), Tail(b))

IsWordAt(s, i) == i >= 0 /\ i < Len(s) /\ At(s, i) \in Word

RECURSIVE Ends(_, _, _, _), CatEnds(_, _, _, _, _),
          AltEnds(_, _, _, _, _, _), FromAll(_, _, _, _), StarEnds(_, _, _, _)

\* the ends of r started from each offset of starts, in order
FromAll(r, s, starts, fl) ==
  IF starts = <<>> THEN <<>>
  ELSE Merge(Ends(r, s, Head(starts), fl), FromAll(r, s, Tail(starts), fl))

CatEnds(rs, n, s, starts, fl) ==
  IF starts = <<>> \/ n > Len(rs) THEN starts
  ELSE CatEnds(rs, n + 1, s, FromAll(rs[n], s, starts, fl), fl)

\* the branches rs[lo..hi] in order (split by halves)
AltEnds(rs, lo, hi, s, i, fl) ==
  IF lo > hi THEN <<>>
  ELSE IF lo = hi THEN Ends(rs[lo], s, i, fl)
  ELSE Merge(AltEnds(rs, lo, (lo + hi) \div 2, s, i, fl),
             AltEnds(rs, (lo + hi) \div 2 + 1, hi, s, i, fl))

\* greedy repetition: one more r first, the empty repetition last
StarEnds(r, s, i, fl) ==
  LET one == SelectSeq(Ends(r, s, i, fl), LAMBDA j : j # i)
      RECURSIVE Rest(_)
      Rest(js) == IF js = <<>> THEN <<>>
                  ELSE Merge(StarEnds(r, s, Head(js), fl), Rest(Tail(js)))
  IN  Merge(Rest(one), <<i>>)

Ends(r, s, i, fl) ==
  CASE r.k = "lit" ->
         LET n == Len(r.w) IN
         IF i + n <= Len(s)
            /\ (IF fl.ic
                  THEN /\ n > 0 => LowerChar(At(s, i)) = LowerChar(At(r.w, 0))
                       /\ lower(Slice(s, i, i + n)) = lower(r.w)
                  ELSE Slice(s, i, i + n) = r.w)
           THEN <<i + n>> ELSE <<>>
    [] r.k = "cls" ->
         IF i < Len(s)
            /\ (At(s, i) \in r.cs
                \/ (fl.ic /\ (LowerChar(At(s, i)) \in r.cs
                              \/ UpperChar(At(s, i)) \in r.cs)))
           THEN <<i + 1>> ELSE <<>>
    [] r.k = "cat" -> CatEnds(r.rs, 1, s, <<i>>, fl)
    [] r.k = "alt" -> AltEnds(r.rs, 1, Len(r.rs), s, i, fl)
    [] r.k = "opt" -> Merge(Ends(r.r, s, i, fl), <<i>>)
    [] r.k = "star" -> StarEnds(r.r, s, i, fl)
    [] r.k = "plus" -> FromAll(Star(r.r), s, Ends(r.r, s, i, fl), fl)
    [] r.k = "bol" ->
         IF i = 0 \/ (fl.ml /\ At(s, i - 1) = "\n") THEN <<i>> ELSE <<>>
    [] r.k = "eol" ->
         IF i = Len(s) \/ (fl.ml /\ At(s, i) = "\n")
            \/ (~fl.ml /\ i = Len(s) - 1 /\ At(s, i) = "\n")
           THEN <<i>> ELSE <<>>
    [] r.k = "wb" ->
         IF IsWordAt(s, i - 1) # IsWordAt(s, i) THEN <<i>> ELSE <<>>

\* the leftmost match at or after offset pos, given E[p + 1] = Ends(r, s, p):
\* <<start, end>>, or <<>> if none; adv forbids an empty match at pos itself
\* (finditer after an empty match)
SearchFrom(E, n, pos, adv) ==
  LET ok(p) == SelectSeq(E[p + 1], LAMBDA e : ~(adv /\ p = pos /\ e = p))
      cand == {p \in pos..n : ok(p) # <<>>}
  IN  IF cand = {} THEN <<>> ELSE <<Min(cand), ok(Min(cand))[1]>>

\* the ends of r from every offset of s, computed once: a tuple whose
\* element p + 1 is Ends(r, s, p)
AllEnds(r, s, fl) == [p \in 1..(Len(s) + 1) |-> Ends(r, s, p - 1, fl)] \o <<>>

\* re.search(r, s): <<start, end>> of the leftmost match, <<>> if none
search(r, s, fl) == SearchFrom(AllEnds(r, s, fl), Len(s), 0, FALSE)

RECURSIVE FindIterFrom(_, _, _, _)
FindIterFrom(E, n, pos, adv) ==
  LET m == SearchFrom(E, n, pos, adv) IN
  IF m = <<>> THEN <<>>
  ELSE <<m>> \o FindIterFrom(E, n, m[2], m[2] = m[1])

\* re.finditer(r, s): the non-overlapping matches <<start, end>>, in order
finditer(r, s, fl) == FindIterFrom(AllEnds(r, s, fl), Len(s), 0, FALSE)

\* re.match(^r$, s): r matches the whole of s
fullmatch(r, s, fl) == Ends(Cat(<<Bol, r, Eol>>), s, 0, fl) # <<>>

\* re.escape(w) as a pattern: the characters of w, literally
escape(w) == Lit(w)

----------------------------------------------------------------------------
(* constants of the program and bounds of the model *)

\* sections.py: text before the first heading becomes a Contact section
\* when the heading starts after this offset
ContactThreshold == 50

\* skills.py: characters of context on each side of a match in a snippet
SnippetRadius == 50

\* skills.py: default fuzzy_threshold of detect_skill_in_text
FuzzyThreshold == 85

\* skills.py: shortest alias the fuzzy pass considers
FuzzyMinLen == 4

\* extract.py: longer texts are truncated to this many characters
MAX_RESUME_CHARS == 15000

\* extract.py: an extraction with a shorter text is not a success
MIN_TEXT_LENGTH == 200

\* at most this many blocks make up a resume text
MaxBlocks == 2

----------------------------------------------------------------------------
(* sections.py *)

SectionTypes == {"summary", "skills", "experience", "projects", "education",
                 "certifications", "awards", "publications", "contact",
                 "other"}

SECTION_PATTERNS ==
  <<
    [type |-> "summary", patterns |-> <<
        Cat(<<Opt(Cat(<<Lit("professional"), Plus(Cls(Space))>>)), Lit("summary")>>),
        Cat(<<Opt(Cat(<<Lit("career"), Plus(Cls(Space))>>)), Lit("objective")>>),
        Lit("profile"),
        Cat(<<Lit("about"), Star(Cls(Space)), Opt(Lit("me"))>>),
        Cat(<<Lit("executive"), Plus(Cls(Space)), Lit("summary")>>),
        Cat(<<Lit("personal"), Plus(Cls(Space)), Lit("statement")>>) >>],
    [type |-> "skills", patterns |-> <<
        Cat(<<Opt(Cat(<<Lit("technical"), Plus(Cls(Space))>>)), Lit("skills")>>),
        Lit("technologies"),
        Lit("competencies"),
        Lit("expertise"),
        Lit("proficiencies"),
        Cat(<<Lit("tool"), Opt(Lit("s")), Star(Cls(Space)), Opt(Alt(<<Lit("&"), Lit("and")>>)), Star(Cls(Space)), Lit("technologies")>>),
        Cat(<<Lit("technical"), Plus(Cls(Space)), Lit("proficiency")>>),
        Cat(<<Lit("core"), Plus(Cls(Space)), Lit("competencies")>>) >>],
    [type |-> "experience", patterns |-> <<
        Cat(<<Alt(<<Lit("work"), Lit("professional"), Lit("employment")>>), Star(Cls(Space)), Opt(Alt(<<Lit("experience"), Lit("history")>>))>>),
        Lit("experience"),
        Cat(<<Lit("career"), Plus(Cls(Space)), Lit("history")>>),
        Cat(<<Lit("work"), Plus(Cls(Space)), Lit("history")>>),
        Cat(<<Lit("professional"), Plus(Cls(Space)), Lit("background")>>),
        Cat(<<Lit("position"), Opt(Lit("s")), Plus(Cls(Space)), Lit("held")>>) >>],
    [type |-> "projects", patterns |-> <<
        Cat(<<Lit("project"), Opt(Lit("s"))>>),
        Cat(<<Alt(<<Lit("personal"), Lit("academic"), Lit("professional")>>), Plus(Cls(Space)), Lit("project"), Opt(Lit("s"))>>),
        Lit("portfolio"),
        Cat(<<Lit("key"), Plus(Cls(Space)), Lit("project"), Opt(Lit("s"))>>),
        Cat(<<Lit("selected"), Plus(Cls(Space)), Lit("project"), Opt(Lit("s"))>>) >>],
    [type |-> "education", patterns |-> <<
        Cat(<<Lit("education"), Opt(Cat(<<Lit("al"), Plus(Cls(Space)), Lit("background")>>))>>),
        Cat(<<Lit("academic"), Plus(Cls(Space)), Alt(<<Lit("background"), Cat(<<Lit("qualification"), Opt(Lit("s"))>>)>>)>>),
        Cat(<<Lit("qualification"), Opt(Lit("s"))>>),
        Cat(<<Lit("degree"), Opt(Lit("s"))>>),
        Cat(<<Lit("academic"), Plus(Cls(Space)), Lit("history")>>) >>],
    [type |-> "certifications", patterns |-> <<
        Cat(<<Lit("certification"), Opt(Lit("s"))>>),
        Cat(<<Lit("license"), Opt(Lit("s")), Star(Cls(Space)), Opt(Alt(<<Lit("&"), Lit("and")>>)), Star(Cls(Space)), Lit("certification"), Opt(Lit("s"))>>),
        Cat(<<Lit("professional"), Plus(Cls(Space)), Lit("certification"), Opt(Lit("s"))>>),
        Cat(<<Lit("credential"), Opt(Lit("s"))>>),
        Cat(<<Lit("accreditation"), Opt(Lit("s"))>>) >>],
    [type |-> "awards", patterns |-> <<
        Cat(<<Lit("award"), Opt(Lit("s")), Star(Cls(Space)), Opt(Alt(<<Lit("&"), Lit("and")>>)), Star(Cls(Space)), Opt(Alt(<<Cat(<<Lit("honor"), Opt(Lit("s"))>>), Cat(<<Lit("achievement"), Opt(Lit("s"))>>)>>))>>),
        Cat(<<Lit("honor"), Opt(Lit("s")), Star(Cls(Space)), Opt(Alt(<<Lit("&"), Lit("and")>>)), Star(Cls(Space)), Lit("award"), Opt(Lit("s"))>>),
        Cat(<<Lit("achievement"), Opt(Lit("s"))>>),
        Lit("recognition"),
        Cat(<<Lit("accomplishment"), Opt(Lit("s"))>>) >>],
    [type |-> "publications", patterns |-> <<
        Cat(<<Lit("publication"), Opt(Lit("s"))>>),
        Cat(<<Lit("paper"), Opt(Lit("s"))>>),
        Cat(<<Lit("research"), Opt(Cat(<<Plus(Cls(Space)), Lit("paper"), Opt(Lit("s"))>>))>>),
        Cat(<<Lit("article"), Opt(Lit("s"))>>) >>],
    [type |-> "contact", patterns |-> <<
        Cat(<<Lit("contact"), Opt(Cat(<<Plus(Cls(Space)), Alt(<<Cat(<<Lit("info"), Opt(Lit("rmation"))>>), Cat(<<Lit("detail"), Opt(Lit("s"))>>)>>)>>))>>),
        Cat(<<Lit("personal"), Plus(Cls(Space)), Alt(<<Cat(<<Lit("info"), Opt(Lit("rmation"))>>), Cat(<<Lit("detail"), Opt(Lit("s"))>>)>>)>>) >>]
  >>

\* all_patterns of _create_section_pattern: the groups' patterns, in order
RECURSIVE AllPatternsFrom(_)
AllPatternsFrom(n) ==
  IF n > Len(SECTION_PATTERNS) THEN <<>>
  ELSE SECTION_PATTERNS[n].patterns \o AllPatternsFrom(n + 1)

all_patterns == AllPatternsFrom(1)

\* ^\s*[#\*\-•]?\s*(?:combined)\s*[:\-–—]?\s*$, IGNORECASE | MULTILINE
section_pattern ==
  Cat(<<Bol, Star(Cls(Space)), Opt(Cls({"#", "*", "-"})), Star(Cls(Space)),
        Alt(all_patterns),
        Star(Cls(Space)), Opt(Cls({":", "-"})), Star(Cls(Space)), Eol>>)

\* the type of the first group, in declaration order, with a pattern that
\* matches the whole cleaned heading
RECURSIVE FirstGroup(_, _)
FirstGroup(heading_clean, n) ==
  IF n > Len(SECTION_PATTERNS) THEN "other"
  ELSE IF \E p \in 1..Len(SECTION_PATTERNS[n].patterns) :
            fullmatch(SECTION_PATTERNS[n].patterns[p], heading_clean,
                      IGNORECASE)
         THEN SECTION_PATTERNS[n].type
  ELSE FirstGroup(heading_clean, n + 1)

\* _identify_section_type without the re.sub that cleans the heading
identify_section_type_uncleaned(heading) ==
  FirstGroup(strip(lower(heading)), 1)

identify_section_type(heading) ==
  LET heading_lower == strip(lower(heading))
      heading_clean == rstrip(lstrip(heading_lower,
                                     Space \cup {"#", "*", "-", ":"}),
                              Space \cup {":", "-"})
  IN  FirstGroup(heading_clean, 1)

Section(section_type, heading, content, start_pos, end_pos) ==
  [section_type |-> section_type, heading |-> heading, content |-> content,
   start_pos |-> start_pos, end_pos |-> end_pos]

\* the section of one heading, kept without content too
SectionOf_kept_empty(heading, content, start_pos, end_pos) ==
  <<Section(identify_section_type(heading), heading, content, start_pos,
            end_pos)>>

\* the section of one heading, if it has content
SectionOf(heading, content, start_pos, end_pos) ==
  IF content # ""
    THEN <<Section(identify_section_type(heading), heading, content,
                   start_pos, end_pos)>>
    ELSE <<>>

\* end_pos with the end of the next heading for its start
EndPos_past_next_heading(text, matches, i) ==
  IF i + 1 <= Len(matches) THEN matches[i + 1][2] ELSE Len(text)

\* end_pos of the section of heading i: the start of the next heading, or
\* the end of the text
EndPos(text, matches, i) ==
  IF i + 1 <= Len(matches) THEN matches[i + 1][1] ELSE Len(text)

\* the loop of parse_resume over the heading matches
RECURSIVE SectionsFrom(_, _, _)
SectionsFrom(text, matches, i) ==
  IF i > Len(matches) THEN <<>>
  ELSE SectionOf(strip(Slice(text, matches[i][1], matches[i][2])),
                 strip(Slice(text, matches[i][2], EndPos(text, matches, i))),
                 matches[i][2],
                 EndPos(text, matches, i))
       \o SectionsFrom(text, matches, i + 1)

\* WithContact without the threshold on the start of the first heading
WithContact_at_any_offset(first_start, pre_content, sections) ==
  IF pre_content # ""
    THEN <<Section("contact", "", pre_content, 0, first_start)>> \o sections
    ELSE sections

\* the content before the first heading, put first as Contact
WithContact(first_start, pre_content, sections) ==
  IF first_start > ContactThreshold /\ pre_content # ""
    THEN <<Section("contact", "", pre_content, 0, first_start)>> \o sections
    ELSE sections

\* parse_resume past finditer, stripping the text of the no-heading branch
\* as it strips the content of every other section
SectionsOfMatches_stripped(text, matches) ==
  IF matches = <<>>
    THEN <<Section("other", "", strip(text), 0, Len(strip(text)))>>
    ELSE WithContact(matches[1][1], strip(Slice(text, 0, matches[1][1])),
                     SectionsFrom(text, matches, 1))

\* parse_resume past finditer: matches are the heading matches
SectionsOfMatches(text, matches) ==
  IF matches = <<>>
    THEN <<Section("other", "", text, 0, Len(text))>>
    ELSE WithContact(matches[1][1], strip(Slice(text, 0, matches[1][1])),
                     SectionsFrom(text, matches, 1))

parse_resume(text) ==
  SectionsOfMatches(text,
                    finditer(section_pattern, text, IGNORECASE_MULTILINE))

----------------------------------------------------------------------------
(* Python dict: a sequence of <<key, value>> pairs with distinct keys, in   *)
(* insertion order.                                                        *)

DictKeys(d) == [n \in 1..Len(d) |-> d[n][1]]

DictValues(d) == [n \in 1..Len(d) |-> d[n][2]]

DictHas(d, key) == \E n \in 1..Len(d) : d[n][1] = key

DictAt(d, key) == d[CHOOSE n \in 1..Len(d) : d[n][1] = key][2]

\* d[key] = value: replaces in place, or appends a new key
DictSet(d, key, value) ==
  IF DictHas(d, key)
    THEN [n \in 1..Len(d) |-> IF d[n][1] = key THEN <<key, value>> ELSE d[n]]
    ELSE Append(d, <<key, value>>)

\* record.get(field, default) on a JSON object modelled as a record
Get(obj, f, default) == IF f \in DOMAIN obj THEN obj[f] ELSE default

\* rational numbers <<numerator, denominator>>, denominator > 0, reduced
RECURSIVE Gcd(_, _)
Gcd(a, b) == IF b = 0 THEN a ELSE Gcd(b, a % b)

Abs(x) == IF x < 0 THEN -x ELSE x

Rat(n, d) ==
  LET g == Gcd(Abs(n), Abs(d))
      sg == IF d < 0 THEN -1 ELSE 1
  IN  <<(sg * n) \div g, (sg * d) \div g>>

RatAdd(a, b) == Rat(a[1] * b[2] + b[1] * a[2], a[2] * b[2])

RatSub(a, b) == Rat(a[1] * b[2] - b[1] * a[2], a[2] * b[2])

RatMul(a, b) == Rat(a[1] * b[1], a[2] * b[2])

RatDiv(a, b) == Rat(a[1] * b[2], a[2] * b[1])

RatLt(a, b) == a[1] * b[2] < b[1] * a[2]

RatLe(a, b) == a[1] * b[2] <= b[1] * a[2]

RatMin(a, b) == IF RatLe(a, b) THEN a ELSE b

RatMax(a, b) == IF RatLe(a, b) THEN b ELSE a

Zero == <<0, 1>>

One == <<1, 1>>

\* int(x) for x >= 0
RatInt(a) == a[1] \div a[2]

----------------------------------------------------------------------------
(* more str methods *)

\* the characters f(0), f(1), ..., f(n-1) of a string built by halves
RECURSIVE Build(_, _, _)
Build(f(_), lo, hi) ==
  IF lo >= hi THEN ""
  ELSE IF lo + 1 = hi THEN f(lo)
  ELSE Build(f, lo, (lo + hi) \div 2) \o Build(f, (lo + hi) \div 2, hi)

\* str.replace(a, b) for single characters a, b
replace(s, a, b) ==
  LET f(i) == IF At(s, i) = a THEN b ELSE At(s, i) IN Build(f, 0, Len(s))

\* str.title(): a letter is upper case after a non-letter, lower case after
\* a letter
title(s) ==
  LET f(i) == IF i > 0 /\ At(s, i - 1) \in Letter
                THEN LowerChar(At(s, i)) ELSE UpperChar(At(s, i))
  IN  Build(f, 0, Len(s))

\* sep.join(items)
RECURSIVE join(_, _)
join(sep, items) ==
  IF items = <<>> THEN ""
  ELSE IF Len(items) = 1 THEN items[1]
  ELSE items[1] \o sep \o join(sep, Tail(items))

\* items[:n]
Take(items, n) == SubSeq(items, 1, IF n < Len(items) THEN n ELSE Len(items))

----------------------------------------------------------------------------
(* rapidfuzz.fuzz: ratio is the normalized InDel similarity, 100 * 2 * LCS  *)
(* / (len(a) + len(b)); partial_ratio is the best ratio of the shorter     *)
(* string against the windows of the longer one.  Ratios are compared as   *)
(* fractions <<numerator, denominator>> of 100.                            *)

\* one row of the longest-common-subsequence table of a and b
RECURSIVE LcsRow(_, _, _, _, _)
LcsRow(a, b, i, prev, cur) ==
  LET j == Len(cur) IN
  IF j > Len(b) THEN cur
  ELSE LcsRow(a, b, i, prev,
         Append(cur,
           IF j = 0 THEN 0
           ELSE IF At(a, i - 1) = At(b, j - 1) THEN prev[j] + 1
           ELSE IF prev[j + 1] >= cur[j] THEN prev[j + 1] ELSE cur[j]))

RECURSIVE LcsFrom(_, _, _, _)
LcsFrom(a, b, i, prev) ==
  IF i > Len(a) THEN prev[Len(b) + 1]
  ELSE LcsFrom(a, b, i + 1, LcsRow(a, b, i, prev, <<>>))

Lcs(a, b) == LcsFrom(a, b, 1, [j \in 1..(Len(b) + 1) |-> 0])

\* fuzz.ratio(a, b) >= threshold
RatioAtLeast(a, b, threshold) ==
  IF Len(a) + Len(b) = 0 THEN TRUE
  ELSE 200 * Lcs(a, b) >= threshold * (Len(a) + Len(b))

\* fuzz.partial_ratio(a, b) >= threshold
PartialRatioAtLeast(a, b, threshold) ==
  LET short == IF Len(a) <= Len(b) THEN a ELSE b
      long == IF Len(a) <= Len(b) THEN b ELSE a
      m == Len(short)
      n == Len(long)
  IN  IF m = 0 THEN n = 0 \/ threshold <= 0
      ELSE \E lo \in (1 - m)..(n - 1) :
             LET from == IF lo < 0 THEN 0 ELSE lo
                 to == IF lo + m > n THEN n ELSE lo + m
             IN  RatioAtLeast(short, Slice(long, from, to), threshold)

----------------------------------------------------------------------------
(* skills.py *)

SkillEvidence(section_type, section_name, snippet, matched_alias, position) ==
  [section_type |-> section_type, section_name |-> section_name,
   snippet |-> snippet, matched_alias |-> matched_alias,
   position |-> position]

\* the pattern of an alias without the word boundaries
AliasPattern_anywhere(alias_lower) == escape(alias_lower)

\* \b + re.escape(alias) + \b
AliasPattern(alias_lower) == Cat(<<Wb, escape(alias_lower), Wb>>)

\* the evidence item of one match m = <<start, end>> of an alias
MatchEvidence(section, alias, m) ==
  SkillEvidence(section.section_type,
                IF section.heading # "" THEN section.heading
                ELSE section.section_type,
                "..."
                \o strip(Slice(section.content,
                               Max({0, m[1] - SnippetRadius}),
                               Min({Len(section.content),
                                    m[2] + SnippetRadius})))
                \o "...",
                alias, m[1])

EvidenceOfMatches(section, alias, ms) ==
  [n \in 1..Len(ms) |-> MatchEvidence(section, alias, ms[n])]

\* the evidence of one alias in one section: one item per match
AliasEvidence(section, text_lower, alias) ==
  EvidenceOfMatches(section, alias,
                    finditer(AliasPattern(lower(alias)), text_lower, NOFLAGS))

RECURSIVE EvidenceFrom(_, _, _, _)
EvidenceFrom(section, text_lower, aliases, n) ==
  IF n > Len(aliases) THEN <<>>
  ELSE AliasEvidence(section, text_lower, aliases[n])
       \o EvidenceFrom(section, text_lower, aliases, n + 1)

find_evidence_in_section(section, aliases) ==
  EvidenceFrom(section, lower(section.content), aliases, 1)

\* the outcome of the two passes of detect_skill_in_text: exact and fuzzy
\* are the indices of the aliases each pass accepts; <<matched alias or
\* "None", confidence>>
FirstDetected(aliases, exact, fuzzy) ==
  IF exact # {} THEN <<aliases[Min(exact)], "high">>
  ELSE IF fuzzy # {} THEN <<aliases[Min(fuzzy)], "medium">>
  ELSE <<"None", "low">>

\* the two passes of detect_skill_in_text over text_lower
DetectInLowered(text_lower, aliases, fuzzy_threshold) ==
  FirstDetected(aliases,
    {n \in 1..Len(aliases) :
       search(AliasPattern(lower(aliases[n])), text_lower, NOFLAGS) # <<>>},
    {n \in 1..Len(aliases) :
       /\ Len(aliases[n]) >= FuzzyMinLen
       /\ PartialRatioAtLeast(lower(aliases[n]), text_lower,
                              fuzzy_threshold)})

\* detect_skill_in_text without text.lower(): the aliases are lowered, the
\* text is searched as written
detect_skill_in_text_as_written(text, aliases, fuzzy_threshold) ==
  DetectInLowered(text, aliases, fuzzy_threshold)

detect_skill_in_text(text, aliases, fuzzy_threshold) ==
  DetectInLowered(lower(text), aliases, fuzzy_threshold)

DetectedSkill(skill_id, priority, weight, category, confidence, evidence_list) ==
  [skill_id |-> skill_id, skill_name |-> title(replace(skill_id, "_", " ")),
   priority |-> priority, weight |-> weight, category |-> category,
   confidence |-> confidence, evidence_list |-> evidence_list]

\* one section of the loop over the sections for one skill: acc is
\* <<all_evidence, best_confidence>>, conf the confidence found in the section
AfterSection(acc, evidence, conf) ==
  IF evidence = <<>> THEN acc
  ELSE <<acc[1] \o evidence,
         IF conf = "high" THEN "high"
         ELSE IF conf = "medium" /\ acc[2] # "high" THEN "medium"
         ELSE acc[2]>>

\* the loop over the sections for one skill: <<all_evidence, best_confidence>>
RECURSIVE SearchSections(_, _, _, _)
SearchSections(sections, aliases, n, acc) ==
  IF n > Len(sections) THEN acc
  ELSE SearchSections(sections, aliases, n + 1,
         AfterSection(acc,
                      find_evidence_in_section(sections[n], aliases),
                      detect_skill_in_text(sections[n].content, aliases,
                                           FuzzyThreshold)[2]))

\* AfterSkill with 'if all_evidence is not None' for 'if all_evidence': an
\* empty evidence list counts as a detection
AfterSkill_empty_evidence_detected(res, skill_id, priority, weight, category, found) ==
  [res EXCEPT
     !.detected_skills =
        DictSet(@, skill_id,
                DetectedSkill(skill_id, priority, weight, category,
                              found[2], found[1])),
     !.matched = Append(@, skill_id)]

\* the end of the loop body for one skill: found is <<all_evidence,
\* best_confidence>>; res holds detected_skills and the tier's matched and
\* missing lists
AfterSkill(res, skill_id, priority, weight, category, found) ==
  IF found[1] # <<>>
    THEN [res EXCEPT
            !.detected_skills =
               DictSet(@, skill_id,
                       DetectedSkill(skill_id, priority, weight, category,
                                     found[2], found[1])),
            !.matched = Append(@, skill_id)]
    ELSE [res EXCEPT !.missing = Append(@, skill_id)]

\* the loop over the skills of one tier
RECURSIVE ProcessTier(_, _, _, _, _, _)
ProcessTier(sections, skills, n, priority, default_weight, res) ==
  IF n > Len(skills) THEN res
  ELSE ProcessTier(sections, skills, n + 1, priority, default_weight,
         AfterSkill(res, skills[n][1], priority,
                    Get(skills[n][2], "weight", default_weight),
                    Get(skills[n][2], "category", "other"),
                    SearchSections(sections,
                                   Get(skills[n][2], "aliases", <<>>), 1,
                                   <<<<>>, "low">>)))

\* SkillAnalysisResult with the second loop appending its misses to
\* must_have_missing, the list of the loop it was copied from
SkillAnalysisResult_one_missing_list(must, nice) ==
  [detected_skills |-> nice.detected_skills,
   must_have_matched |-> must.matched,
   must_have_missing |-> must.missing \o nice.missing,
   nice_to_have_matched |-> nice.matched,
   nice_to_have_missing |-> <<>>]

\* the result of the two loops, must and nice
SkillAnalysisResult(must, nice) ==
  [detected_skills |-> nice.detected_skills,
   must_have_matched |-> must.matched,
   must_have_missing |-> must.missing,
   nice_to_have_matched |-> nice.matched,
   nice_to_have_missing |-> nice.missing]

\* the nice-to-have loop, which goes on with the detected_skills of the
\* must-have loop
NiceToHave(sections, role_taxonomy, must) ==
  SkillAnalysisResult(must,
    ProcessTier(sections, Get(role_taxonomy, "nice_to_have", <<>>), 1,
                "nice_to_have", <<1, 2>>,
                [detected_skills |-> must.detected_skills, matched |-> <<>>,
                 missing |-> <<>>]))

analyze_skills_sectioned(sections, role_taxonomy) ==
  NiceToHave(sections, role_taxonomy,
    ProcessTier(sections, Get(role_taxonomy, "must_have", <<>>), 1,
                "must_have", One,
                [detected_skills |-> <<>>, matched |-> <<>>,
                 missing |-> <<>>]))

\* is_proven with Experience and Projects as the only proving sections
is_proven_without_certifications(skill) ==
  \E n \in 1..Len(skill.evidence_list) :
     skill.evidence_list[n].section_type \in {"experience", "projects"}

is_proven(skill) ==
  \E n \in 1..Len(skill.evidence_list) :
     skill.evidence_list[n].section_type
       \in {"experience", "projects", "certifications"}

\* is_only_listed with any() in place of all()
is_only_listed_some_evidence(skill) ==
  /\ skill.evidence_list # <<>>
  /\ \E n \in 1..Len(skill.evidence_list) :
        skill.evidence_list[n].section_type \in {"skills", "summary"}

is_only_listed(skill) ==
  /\ skill.evidence_list # <<>>
  /\ \A n \in 1..Len(skill.evidence_list) :
        skill.evidence_list[n].section_type \in {"skills", "summary"}

Coverage(matched, missing) ==
  IF Len(matched) + Len(missing) = 0 THEN Zero
  ELSE Rat(Len(matched), Len(matched) + Len(missing))

must_have_coverage(sa) == Coverage(sa.must_have_matched, sa.must_have_missing)

nice_to_have_coverage(sa) ==
  Coverage(sa.nice_to_have_matched, sa.nice_to_have_missing)

Count(items, P(_)) == Cardinality({n \in 1..Len(items) : P(items[n])})

proven_skills_ratio(sa) ==
  IF sa.detected_skills = <<>> THEN Zero
  ELSE Rat(Count(DictValues(sa.detected_skills), is_proven),
           Len(sa.detected_skills))

----------------------------------------------------------------------------
(* semantic.py and scoring.py.  The embedding model and scikit-learn are   *)
(* collaborators: a collaborator state c gives, per request, whether the    *)
(* embedding model can be used (compute_embedding raises when c.available   *)
(* is FALSE), the cosine similarity c.cosine[name] of each section's        *)
(* embedding with the job description's, and the TF-IDF similarity c.tfidf  *)
(* of resume and job description.                                           *)

\* section_weights of semantic_similarity_sectioned, default 0.3
SemanticSectionWeight(section_name) ==
  CASE section_name = "experience" -> <<1, 1>>
    [] section_name = "projects" -> <<9, 10>>
    [] section_name = "skills" -> <<7, 10>>
    [] section_name = "education" -> <<1, 2>>
    [] section_name = "summary" -> <<3, 5>>
    [] section_name = "certifications" -> <<3, 5>>
    [] section_name = "other" -> <<3, 10>>
    [] OTHER -> <<3, 10>>

RECURSIVE SumRat(_, _, _)
SumRat(f(_), n, hi) ==
  IF n > hi THEN Zero ELSE RatAdd(f(n), SumRat(f, n + 1, hi))

\* sorted(items, key, reverse=True) over pairs <<key, item>>: stable, an
\* item stays before the later items of equal key
RECURSIVE InsertDesc(_, _)
InsertDesc(x, sorted) ==
  IF sorted = <<>> THEN <<x>>
  ELSE IF RatLt(x[1], Head(sorted)[1])
         THEN <<Head(sorted)>> \o InsertDesc(x, Tail(sorted))
  ELSE <<x>> \o sorted

RECURSIVE SortPairsDesc(_)
SortPairsDesc(pairs) ==
  IF pairs = <<>> THEN <<>>
  ELSE InsertDesc(Head(pairs), SortPairsDesc(Tail(pairs)))

\* the items of sorted pairs
Items(pairs) == [n \in 1..Len(pairs) |-> pairs[n][2]]

SortDesc(items, key(_)) ==
  Items(SortPairsDesc([n \in 1..Len(items) |-> <<key(items[n]), items[n]>>]))

\* the similarity and weight of each section used
SectionScores(used, c) ==
  [n \in 1..Len(used) |->
     [name |-> used[n][1], sim |-> c.cosine[used[n][1]],
      weight |-> SemanticSectionWeight(lower(used[n][1]))]]

OverallSimilarity(weighted_sum, total_weight) ==
  IF RatLt(Zero, total_weight) THEN RatDiv(weighted_sum, total_weight)
  ELSE Zero

\* raised is whether an exception leaves semantic_similarity_sectioned
SemanticMatch(overall_similarity, section_similarities, embedding_computed) ==
  [overall_similarity |-> overall_similarity,
   section_similarities |-> section_similarities,
   best_matching_sections |->
     Take(SortDesc(section_similarities, LAMBDA kv : kv[2]), 5),
   embedding_computed |-> embedding_computed,
   raised |-> FALSE]

\* the try block past the embedding of the job description
SimilarityOf(scores) ==
  SemanticMatch(
    OverallSimilarity(
      SumRat(LAMBDA n : RatMul(scores[n].sim, scores[n].weight), 1,
             Len(scores)),
      SumRat(LAMBDA n : scores[n].weight, 1, Len(scores))),
    [n \in 1..Len(scores) |-> <<scores[n].name, scores[n].sim>>],
    TRUE)

\* the SemanticMatch, or the except branch's SemanticMatch when an embedding
\* cannot be computed
semantic_similarity_sectioned(resume_sections, c) ==
  IF ~c.available THEN SemanticMatch(Zero, <<>>, FALSE)
  ELSE SimilarityOf(
         SectionScores(SelectSeq(resume_sections,
                                 LAMBDA kv : strip(kv[2]) # ""), c))

tfidf_similarity(c) == c.tfidf

----------------------------------------------------------------------------
(* hybrid_scoring.py *)

ScoreComponent(name, score, weight, details, suggestions) ==
  [name |-> name, score |-> score, weight |-> weight, details |-> details,
   suggestions |-> suggestions]

\* weighted_score returning the score without its weight
weighted_score_unweighted(comp) == comp.score

weighted_score(comp) == RatMul(comp.score, comp.weight)

final_score(hs) ==
  RatAdd(RatAdd(RatAdd(weighted_score(hs.skill_coverage),
                       weighted_score(hs.semantic_similarity)),
                weighted_score(hs.evidence_strength)),
         weighted_score(hs.impact_quality))

\* HybridScore.final_level
final_level(hs) ==
  IF RatLe(<<4, 5>>, final_score(hs)) THEN "Excellent"
  ELSE IF RatLe(<<3, 5>>, final_score(hs)) THEN "Good"
  ELSE IF RatLe(<<2, 5>>, final_score(hs)) THEN "Moderate"
  ELSE IF RatLe(<<1, 5>>, final_score(hs)) THEN "Needs Work"
  ELSE "Poor"

all_components(hs) ==
  <<hs.skill_coverage, hs.semantic_similarity, hs.evidence_strength,
    hs.impact_quality>>

\* sorted(items, key) over pairs <<key, item>>: ascending and stable, an
\* item stays before the later items of equal key
RECURSIVE InsertAsc(_, _)
InsertAsc(x, sorted) ==
  IF sorted = <<>> THEN <<x>>
  ELSE IF RatLt(Head(sorted)[1], x[1])
         THEN <<Head(sorted)>> \o InsertAsc(x, Tail(sorted))
  ELSE <<x>> \o sorted

RECURSIVE SortPairsAsc(_)
SortPairsAsc(pairs) ==
  IF pairs = <<>> THEN <<>>
  ELSE InsertAsc(Head(pairs), SortPairsAsc(Tail(pairs)))

SortAsc(items, key(_)) ==
  Items(SortPairsAsc([n \in 1..Len(items) |-> <<key(items[n]), items[n]>>]))

\* the inner loop of top_suggestions over comp.suggestions[:2]: a
\* suggestion is appended while fewer than 5 are held
RECURSIVE AppendBelowFive(_, _)
AppendBelowFive(suggestions, more) ==
  IF more = <<>> THEN suggestions
  ELSE AppendBelowFive(IF Len(suggestions) < 5
                         THEN Append(suggestions, Head(more))
                         ELSE suggestions,
                       Tail(more))

\* the outer loop of top_suggestions over sorted_components
RECURSIVE SuggestionsFrom(_, _, _)
SuggestionsFrom(sorted_components, n, suggestions) ==
  IF n > Len(sorted_components) THEN suggestions
  ELSE SuggestionsFrom(sorted_components, n + 1,
         AppendBelowFive(suggestions,
                         Take(sorted_components[n].suggestions, 2)))

\* top_suggestions with the components taken from the highest score down
top_suggestions_best_first(hs) ==
  SuggestionsFrom(SortDesc(all_components(hs), LAMBDA c : c.score), 1, <<>>)

top_suggestions(hs) ==
  SuggestionsFrom(SortAsc(all_components(hs), LAMBDA c : c.score), 1, <<>>)

\* s.replace('_', ' ').title() for each skill id
SkillTitles(ids) == [n \in 1..Len(ids) |-> title(replace(ids[n], "_", " "))]

\* SkillCoverageComponent without the condition on must_have_coverage: the
\* missing nice-to-have skills are suggested whenever there are any
SkillCoverageComponent_bonus_unconditional(sa, mh, nth) ==
  ScoreComponent("Skill Coverage",
    RatAdd(RatMul(mh, <<7, 10>>), RatMul(nth, <<3, 10>>)),
    <<2, 5>>,
    "Must-have: " \o ToString(RatInt(RatMul(mh, <<100, 1>>))) \o "% ("
    \o ToString(Len(sa.must_have_matched)) \o "/"
    \o ToString(Len(sa.must_have_matched) + Len(sa.must_have_missing))
    \o ") | Nice-to-have: "
    \o ToString(RatInt(RatMul(nth, <<100, 1>>))) \o "% ("
    \o ToString(Len(sa.nice_to_have_matched)) \o "/"
    \o ToString(Len(sa.nice_to_have_matched) + Len(sa.nice_to_have_missing))
    \o ")",
    (IF sa.must_have_missing # <<>>
       THEN <<"Add critical skills: "
              \o join(", ", SkillTitles(Take(sa.must_have_missing, 3)))>>
       ELSE <<>>)
    \o (IF sa.nice_to_have_missing # <<>>
          THEN <<"Consider adding: "
                 \o join(", ", SkillTitles(Take(sa.nice_to_have_missing, 2)))>>
          ELSE <<>>))

\* the component, given must_have_coverage mh and nice_to_have_coverage nth
SkillCoverageComponent(sa, mh, nth) ==
  ScoreComponent("Skill Coverage",
    RatAdd(RatMul(mh, <<7, 10>>), RatMul(nth, <<3, 10>>)),
    <<2, 5>>,
    "Must-have: " \o ToString(RatInt(RatMul(mh, <<100, 1>>))) \o "% ("
    \o ToString(Len(sa.must_have_matched)) \o "/"
    \o ToString(Len(sa.must_have_matched) + Len(sa.must_have_missing))
    \o ") | Nice-to-have: "
    \o ToString(RatInt(RatMul(nth, <<100, 1>>))) \o "% ("
    \o ToString(Len(sa.nice_to_have_matched)) \o "/"
    \o ToString(Len(sa.nice_to_have_matched) + Len(sa.nice_to_have_missing))
    \o ")",
    (IF sa.must_have_missing # <<>>
       THEN <<"Add critical skills: "
              \o join(", ", SkillTitles(Take(sa.must_have_missing, 3)))>>
       ELSE <<>>)
    \o (IF sa.nice_to_have_missing # <<>> /\ RatLt(<<7, 10>>, mh)
          THEN <<"Consider adding: "
                 \o join(", ", SkillTitles(Take(sa.nice_to_have_missing, 2)))>>
          ELSE <<>>))

\* calculate_skill_coverage_score with the two coverages taken for each
\* other
calculate_skill_coverage_score_tiers_swapped(sa) ==
  SkillCoverageComponent(sa, nice_to_have_coverage(sa), must_have_coverage(sa))

calculate_skill_coverage_score(sa) ==
  SkillCoverageComponent(sa, must_have_coverage(sa), nice_to_have_coverage(sa))

\* sections_dict: {s.section_type.value: s.content for s in sections}
RECURSIVE SectionsDict(_, _, _)
SectionsDict(sections, n, d) ==
  IF n > Len(sections) THEN d
  ELSE SectionsDict(sections, n + 1,
                    DictSet(d, sections[n].section_type, sections[n].content))

\* the component, given the score and the details
SemanticComponent(score, details) ==
  ScoreComponent("Semantic Match", score, <<3, 10>>, details,
    (IF RatLt(score, <<1, 2>>)
       THEN <<"Use more keywords and terminology from the job description">>
       ELSE <<>>)
    \o (IF RatLt(score, <<3, 10>>)
          THEN <<"Tailor your resume more specifically to this role">>
          ELSE <<>>))

\* the try block past semantic_similarity_sectioned, or the except branch
SemanticOutcome(result, c) ==
  IF result.raised
    THEN SemanticComponent(tfidf_similarity(c),
                           "TF-IDF based (embedding unavailable)")
    ELSE SemanticComponent(result.overall_similarity,
           IF result.best_matching_sections # <<>>
             THEN "Best match: " \o title(result.best_matching_sections[1][1])
                  \o " section"
             ELSE "Section analysis completed")

calculate_semantic_score(parsed_resume, c) ==
  SemanticOutcome(
    semantic_similarity_sectioned(SectionsDict(parsed_resume, 1, <<>>), c), c)

\* the component, given the detected skills that are only listed and the
\* counts
EvidenceComponent(listed, proven_count, listed_only_count, total) ==
  ScoreComponent("Evidence Strength",
    RatMin(One,
           RatAdd(IF total > 0 THEN Rat(proven_count, total) ELSE Zero,
                  RatMul(IF total > 0 THEN Rat(listed_only_count, total)
                         ELSE Zero,
                         <<1, 2>>))),
    <<1, 5>>,
    ToString(proven_count) \o " proven in Experience/Projects, "
    \o ToString(listed_only_count) \o " only listed",
    (IF listed_only_count > proven_count /\ listed # <<>>
       THEN <<"Add project examples using: "
              \o join(", ", Take([n \in 1..Len(listed) |->
                                    listed[n].skill_name], 3))>>
       ELSE <<>>)
    \o (IF proven_count = 0
          THEN <<"Add concrete examples in Experience/Projects sections">>
          ELSE <<>>))

\* EvidenceOfSkills with the skills that are only listed counted as proven
EvidenceOfSkills_listed_as_proven(skills) ==
  EvidenceComponent(SelectSeq(skills, is_only_listed),
                    Count(skills, is_proven) + Count(skills, is_only_listed),
                    0, Len(skills))

EvidenceOfSkills(skills) ==
  EvidenceComponent(SelectSeq(skills, is_only_listed),
                    Count(skills, is_proven), Count(skills, is_only_listed),
                    Len(skills))

calculate_evidence_score(sa) ==
  IF sa.detected_skills = <<>>
    THEN ScoreComponent("Evidence Strength", Zero, <<1, 5>>,
                        "No skills detected to evaluate",
                        <<"Add skills with evidence in projects or experience">>)
    ELSE EvidenceOfSkills(DictValues(sa.detected_skills))

strong_verbs ==
  <<"built", "developed", "engineered", "designed", "implemented",
    "created", "launched", "deployed", "optimized", "improved",
    "increased", "reduced", "achieved", "led", "managed",
    "architected", "automated", "streamlined", "transformed">>

weak_verbs ==
  <<"worked on", "helped with", "assisted", "participated",
    "was responsible for", "involved in">>

metric_patterns ==
  <<Cat(<<Plus(Cls(Digit)), Lit("%")>>),
    Cat(<<Plus(Cls(Digit)), Lit("x")>>),
    Cat(<<Lit("$"), Plus(Cls(Digit \cup {","}))>>),
    Cat(<<Plus(Cls(Digit)), Star(Cls(Space)),
          Alt(<<Cat(<<Lit("user"), Opt(Lit("s"))>>),
                Cat(<<Lit("customer"), Opt(Lit("s"))>>),
                Cat(<<Lit("client"), Opt(Lit("s"))>>)>>)>>),
    Cat(<<Alt(<<Lit("increased"), Lit("improved"), Lit("reduced"),
                Lit("decreased")>>),
          Plus(Cls(Space)), Lit("by"), Plus(Cls(Space)),
          Plus(Cls(Digit))>>)>>

\* get_combined_text taking the sections of every type
get_combined_text_of_every_type(parsed_resume, section_types) ==
  LET chosen == SelectSeq(parsed_resume, LAMBDA s : TRUE)
  IN  join("\n", [n \in 1..Len(chosen) |-> chosen[n].content])

\* ParsedResume.get_combined_text(*section_types)
get_combined_text(parsed_resume, section_types) ==
  LET chosen == SelectSeq(parsed_resume,
                          LAMBDA s : s.section_type \in section_types)
  IN  join("\n", [n \in 1..Len(chosen) |-> chosen[n].content])

RECURSIVE SumInt(_, _, _)
SumInt(f(_), n, hi) == IF n > hi THEN 0 ELSE f(n) + SumInt(f, n + 1, hi)

\* ImpactComponent with the penalty weak_count * 0.1, without its cap
ImpactComponent_penalty_uncapped(strong_count, weak_count, metric_count) ==
  ScoreComponent("Impact Quality",
    RatMax(Zero,
      RatMin(One,
        RatSub(RatAdd(RatMul(RatMin(One, Rat(strong_count, 8)), <<1, 2>>),
                      RatMul(RatMin(One, Rat(metric_count, 5)), <<1, 2>>)),
               Rat(weak_count, 10)))),
    <<1, 10>>,
    ToString(strong_count) \o " strong verbs, " \o ToString(metric_count)
    \o " metrics, " \o ToString(weak_count) \o " weak phrases",
    (IF metric_count < 3
       THEN <<"Add quantified achievements (%, numbers, timeframes)">>
       ELSE <<>>)
    \o (IF strong_count < 5
          THEN <<"Use stronger action verbs (built, developed, optimized)">>
          ELSE <<>>)
    \o (IF weak_count > 2
          THEN <<"Replace weak phrases like 'worked on' with specific actions">>
          ELSE <<>>))

\* the component, given the three counts
ImpactComponent(strong_count, weak_count, metric_count) ==
  ScoreComponent("Impact Quality",
    RatMax(Zero,
      RatMin(One,
        RatSub(RatAdd(RatMul(RatMin(One, Rat(strong_count, 8)), <<1, 2>>),
                      RatMul(RatMin(One, Rat(metric_count, 5)), <<1, 2>>)),
               RatMin(<<3, 10>>, Rat(weak_count, 10))))),
    <<1, 10>>,
    ToString(strong_count) \o " strong verbs, " \o ToString(metric_count)
    \o " metrics, " \o ToString(weak_count) \o " weak phrases",
    (IF metric_count < 3
       THEN <<"Add quantified achievements (%, numbers, timeframes)">>
       ELSE <<>>)
    \o (IF strong_count < 5
          THEN <<"Use stronger action verbs (built, developed, optimized)">>
          ELSE <<>>)
    \o (IF weak_count > 2
          THEN <<"Replace weak phrases like 'worked on' with specific actions">>
          ELSE <<>>))

\* the counts over relevant_text and text_lower
ImpactOfText(relevant_text, text_lower) ==
  ImpactComponent(
    Count(strong_verbs, LAMBDA v : contains(text_lower, v)),
    Count(weak_verbs, LAMBDA v : contains(text_lower, v)),
    SumInt(LAMBDA n : Len(finditer(metric_patterns[n], relevant_text,
                                   IGNORECASE)),
           1, Len(metric_patterns)))

\* text_lower = relevant_text.lower()
ImpactOfRelevant(relevant_text) ==
  ImpactOfText(relevant_text, lower(relevant_text))

calculate_impact_score(parsed_resume) ==
  ImpactOfRelevant(
    get_combined_text(parsed_resume, {"experience", "projects", "summary"}))

HybridScore(skill_analysis, parsed_resume, c) ==
  [skill_coverage |-> calculate_skill_coverage_score(skill_analysis),
   semantic_similarity |-> calculate_semantic_score(parsed_resume, c),
   evidence_strength |-> calculate_evidence_score(skill_analysis),
   impact_quality |-> calculate_impact_score(parsed_resume),
   skill_analysis |-> skill_analysis,
   parsed_resume |-> parsed_resume]

compute_hybrid_score(role_taxonomy, parsed_resume, c) ==
  HybridScore(analyze_skills_sectioned(parsed_resume, role_taxonomy),
              parsed_resume, c)

----------------------------------------------------------------------------
(* recommendations.py *)

\* alignment_score
AlignmentScore(must_have_score, nice_to_have_score, evidence_bonus) ==
  RatMin(One,
         RatAdd(RatAdd(RatMul(must_have_score, <<7, 10>>),
                       RatMul(nice_to_have_score, <<3, 10>>)),
                evidence_bonus))

RoleMatch(role_taxonomy, skill_analysis) ==
  [role_key |-> "",
   role_title |-> Get(role_taxonomy, "title", "Unknown"),
   alignment_score |->
     AlignmentScore(must_have_coverage(skill_analysis),
                    nice_to_have_coverage(skill_analysis),
                    RatMul(proven_skills_ratio(skill_analysis), <<1, 10>>)),
   must_have_matched |-> skill_analysis.must_have_matched,
   must_have_missing |-> skill_analysis.must_have_missing,
   nice_to_have_matched |-> skill_analysis.nice_to_have_matched,
   nice_to_have_missing |-> skill_analysis.nice_to_have_missing]

calculate_role_alignment(role_taxonomy, parsed_resume) ==
  RoleMatch(role_taxonomy,
            analyze_skills_sectioned(parsed_resume, role_taxonomy))

\* role_key is set by recommend_roles
WithRoleKey(match, role_key) == [match EXCEPT !.role_key = role_key]

\* the loop over the roles of one track, in declaration order
RolesFrom(roles, parsed_resume) ==
  [n \in 1..Len(roles) |->
     WithRoleKey(calculate_role_alignment(roles[n][2], parsed_resume),
                 roles[n][1])]

RolesOfTrack(track_data, parsed_resume) ==
  RolesFrom(Get(track_data, "roles", <<>>), parsed_resume)

RECURSIVE MatchesFrom(_, _, _)
MatchesFrom(taxonomy, n, parsed_resume) ==
  IF n > Len(taxonomy) THEN <<>>
  ELSE RolesOfTrack(taxonomy[n][2], parsed_resume)
       \o MatchesFrom(taxonomy, n + 1, parsed_resume)

\* the skills matched by a role
MatchedSkills(m) ==
  {m.must_have_matched[n] : n \in 1..Len(m.must_have_matched)}
  \cup {m.nice_to_have_matched[n] : n \in 1..Len(m.nice_to_have_matched)}

RoleRecommendation(matches) ==
  [matches |-> matches,
   resume_skills |->
     UNION {MatchedSkills(matches[k]) : k \in 1..Len(matches)}]

\* recommend_roles without matches.sort: the matches in catalog order
recommend_roles_unsorted(taxonomy, parsed_resume) ==
  RoleRecommendation(MatchesFrom(taxonomy, 1, parsed_resume))

recommend_roles(taxonomy, parsed_resume) ==
  RoleRecommendation(SortDesc(MatchesFrom(taxonomy, 1, parsed_resume),
                              LAMBDA m : m.alignment_score))

----------------------------------------------------------------------------
(* app.py: the taxonomy catalog, the inputs of a request and the analysis  *)
(* pipeline run when the Analyze button is pressed, from step 2 on.  The    *)
(* resume text is any text parse_resume may be called with.                *)

Skill(aliases, weight, category) ==
  [aliases |-> aliases, weight |-> weight, category |-> category]

Half == <<1, 2>>

\* a catalog of the shape app.py reads: role id -> {title, must_have,
\* nice_to_have}
RoleCatalog ==
  << <<"data_engineer",
       [title |-> "Data Engineer",
        must_have |-> << <<"python", Skill(<<"python", "py">>, One, "language")>>,
                         <<"sql", Skill(<<"SQL">>, One, "database")>> >>,
        nice_to_have |-> << <<"django", Skill(<<"django">>, <<1, 2>>, "framework")>> >>]>>,
     <<"backend_developer",
       [title |-> "Backend Developer",
        must_have |-> << <<"django", Skill(<<"Django">>, One, "framework")>> >>,
        nice_to_have |-> << <<"data_pipelines", Skill(<<"pipelines", "etl">>, <<1, 2>>, "data")>>,
                            <<"python", Skill(<<"python">>, <<1, 2>>, "language")>> >>]>>,
     <<"analyst",
       [title |-> "Analyst",
        must_have |-> << <<"sql", Skill(<<"sql">>, One, "database")>>,
                         <<"excel", Skill(<<"excel">>, One, "tool")>> >>,
        nice_to_have |-> << >>]>>,
     <<"platform_engineer",
       [title |-> "Platform Engineer",
        must_have |-> << <<"python", Skill(<<"python">>, One, "language")>>,
                         <<"sql", Skill(<<"sql">>, One, "database")>>,
                         <<"django", Skill(<<"django">>, One, "framework")>>,
                         <<"docker", Skill(<<"docker">>, One, "tool")>> >>,
        nice_to_have |-> << <<"excel", Skill(<<"excel">>, Half, "tool")>>,
                            <<"kubernetes", Skill(<<"kubernetes", "k8s">>, Half, "tool")>>,
                            <<"terraform", Skill(<<"terraform">>, Half, "tool")>> >>]>> >>

\* a catalog of the shape recommend_roles reads: track id -> {title, roles}
TrackCatalog ==
  << <<"engineering",
       [title |-> "Engineering",
        roles |-> SubSeq(RoleCatalog, 1, 2) \o SubSeq(RoleCatalog, 4, 4)]>>,
     <<"business",
       [title |-> "Business",
        roles |-> SubSeq(RoleCatalog, 3, 3)]>> >>

Catalogs == {RoleCatalog, TrackCatalog}

\* the resume texts: up to MaxBlocks of the blocks of a resume, in the order
\* of the resume, concatenated
Blocks ==
  <<"Jane Doe | Python developer | jane.doe@example.com\n",
    "Worked on pythonic apps\n",
    "Education\n",
    "Experience\nBuilt Python and SQL pipelines, improved speed by 30%\n",
    "Skills:\nPython, Django\n",
    "Professional Summary\nSQL analyst, helped with audits\n# Projects\nAssisted and participated in Excel dashboards\nCertifications:\nDjango certified\n">>

\* the choices of up to n blocks: increasing sequences of block numbers
RECURSIVE BlockChoices(_)
BlockChoices(n) ==
  IF n = 0 THEN {<<>>}
  ELSE LET shorter == BlockChoices(n - 1) IN
       shorter \cup UNION {{Append(c, k) :
                               k \in {j \in 1..Len(Blocks) :
                                        c = <<>> \/ c[Len(c)] < j}} :
                            c \in shorter}

Texts ==
  {join("", [i \in 1..Len(c) |-> Blocks[c[i]]]) : c \in BlockChoices(MaxBlocks)}

\* a catalog whose skill definitions have aliases that begin or end with a
\* character that is no letter, digit or underscore, lack the aliases field,
\* have no alias, or name one skill id in both tiers
EdgeCatalog ==
  << <<"systems_developer",
       [title |-> "Systems Developer",
        must_have |-> << <<"go", Skill(<<"Go">>, One, "language")>>,
                         <<"cpp", Skill(<<"C++">>, One, "language")>>,
                         <<"dotnet", Skill(<<".NET">>, One, "framework")>> >>,
        nice_to_have |-> << <<"rust", Skill(<<"Rust">>, Half, "language")>> >>]>>,
     <<"legacy_developer",
       [title |-> "Legacy Developer",
        must_have |-> << <<"go", Skill(<<"Go">>, One, "language")>>,
                         <<"cobol", [weight |-> One, category |-> "language"]>>,
                         <<"fortran", Skill(<<>>, One, "language")>> >>,
        nice_to_have |-> << <<"perl", [category |-> "language"]>>,
                            <<"go", Skill(<<"Go">>, Half, "language")>>,
                            <<"rust", Skill(<<"Rust">>, Half, "language")>> >>]>> >>

\* blocks for those skills, and blocks with more strong verbs, metrics and
\* weak phrases than the impact score counts
EdgeBlocks ==
  <<"Summary\nGood at Cobol, Fortran and Perl\n",
    "Skills:\nC++, Go, .NET\n",
    "Experience\nBuilt ASP.NET apps, ported C++11 code to Rust\n",
    "Projects\nWrote Go tools\n",
    "Experience\nBuilt, developed, engineered, designed, implemented, created, launched, deployed and optimized tools: 10%, 20%, 30%, 40%, 3x and $5,000\n",
    "Projects\nWorked on, helped with, assisted, participated, was responsible for and involved in releases\n">>

EdgeTexts ==
  {join("", [i \in 1..Len(c) |-> EdgeBlocks[c[i]]]) :
     c \in {b \in BlockChoices(MaxBlocks) :
              \A i \in 1..Len(b) : b[i] <= Len(EdgeBlocks)}}

Collaborators ==
  {[available |-> FALSE, cosine |-> [t \in SectionTypes |-> Zero],
    tfidf |-> Half],
   [available |-> TRUE, cosine |-> [t \in SectionTypes |-> One],
    tfidf |-> Half],
   [available |-> TRUE,
    cosine |-> [t \in SectionTypes |->
                  IF t = "experience" THEN <<4, 5>>
                  ELSE IF t = "skills" THEN Half ELSE <<-1, 10>>],
    tfidf |-> Zero],
   [available |-> TRUE, cosine |-> [t \in SectionTypes |-> <<-1, 2>>],
    tfidf |-> Zero]}

NoCollaborators == [available |-> FALSE, cosine |-> <<>>, tfidf |-> Zero]

NoResult == <<>>

VARIABLES
  TAX,                 \* the taxonomy catalog loaded at start-up
  file_bytes,          \* the decoded text of the uploaded file, if any
  resume_text,         \* the resume text given to parse_resume
  selected_role,       \* the key of TAX chosen in the sidebar
  collaborators,       \* what the embedding model and TF-IDF answer
  model_loaded,        \* semantic._model / load_cached_model: loaded once
  pc,                  \* position in the pipeline
  parsed_resume,       \* the sections of parse_resume(resume_text)
  hybrid_score,        \* the HybridScore of the request
  role_recommendation, \* the RoleRecommendation of the request
  run,                 \* 1 for the first analysis, 2 for a repeated one
  first_run,           \* the results of the first analysis
  ats_check            \* the Section Balance check of the ATS analysis

vars == <<TAX, file_bytes, resume_text, selected_role, collaborators, model_loaded, pc,
          parsed_resume, hybrid_score, role_recommendation, run, first_run,
          ats_check>>

inputs == <<TAX, file_bytes, resume_text, selected_role>>

Init ==
  /\ TAX \in Catalogs
  /\ file_bytes = NoResult
  /\ resume_text \in Texts
  /\ selected_role \in {TAX[n][1] : n \in 1..Len(TAX)}
  /\ collaborators = NoCollaborators
  /\ model_loaded = FALSE
  /\ pc = "start"
  /\ parsed_resume = NoResult
  /\ hybrid_score = NoResult
  /\ role_recommendation = NoResult
  /\ run = 1
  /\ first_run = NoResult
  /\ ats_check = NoResult

\* Parse Sections with the section list kept between requests: the sections
\* of a repeated analysis are added to those of the first
ParseResume_kept_sections ==
  /\ pc = "start"
  /\ parsed_resume' = (IF run = 2 THEN first_run.parsed_resume ELSE <<>>)
                      \o parse_resume(resume_text)
  /\ pc' = "parsed"
  /\ UNCHANGED <<inputs, collaborators, model_loaded, hybrid_score,
                 role_recommendation, run, first_run, ats_check>>

\* 2. Parse Sections
ParseResume ==
  /\ pc = "start"
  /\ parsed_resume' = parse_resume(resume_text)
  /\ pc' = "parsed"
  /\ UNCHANGED <<inputs, collaborators, model_loaded, hybrid_score,
                 role_recommendation, run, first_run, ats_check>>

\* 3. Compute Hybrid Score; a repeated analysis meets the same collaborators
ComputeHybridScore ==
  /\ pc = "parsed"
  /\ \E c \in Collaborators :
        /\ run = 2 => c = collaborators
        /\ collaborators' = c
        /\ model_loaded' = (model_loaded \/ c.available)
        /\ hybrid_score' =
             compute_hybrid_score(DictAt(TAX, selected_role), parsed_resume, c)
  /\ pc' = "scored"
  /\ UNCHANGED <<inputs, parsed_resume, role_recommendation, run, first_run, ats_check>>

\* 6. Role Recommendations (enable_role_rec keeps its default, checked)
RecommendRoles ==
  /\ pc = "scored"
  /\ role_recommendation' = recommend_roles(TAX, parsed_resume)
  /\ pc' = "done"
  /\ UNCHANGED <<inputs, collaborators, model_loaded, parsed_resume,
                 hybrid_score, run, first_run, ats_check>>

\* the button is pressed again with the same file, role and job description:
\* the script reruns from the top; only the loaded model survives
AnalyzeAgain ==
  /\ pc = "done"
  /\ run = 1
  /\ first_run' = [parsed_resume |-> parsed_resume,
                   hybrid_score |-> hybrid_score,
                   role_recommendation |-> role_recommendation]
  /\ run' = 2
  /\ pc' = "start"
  /\ parsed_resume' = NoResult
  /\ hybrid_score' = NoResult
  /\ role_recommendation' = NoResult
  /\ UNCHANGED <<inputs, collaborators, model_loaded, ats_check>>

\* the request with the catalog and the texts of the edge cases
EdgeInit ==
  /\ TAX = EdgeCatalog
  /\ file_bytes = NoResult
  /\ resume_text \in EdgeTexts
  /\ selected_role \in {TAX[n][1] : n \in 1..Len(TAX)}
  /\ collaborators = NoCollaborators
  /\ model_loaded = FALSE
  /\ pc = "start"
  /\ parsed_resume = NoResult
  /\ hybrid_score = NoResult
  /\ role_recommendation = NoResult
  /\ run = 1
  /\ first_run = NoResult
  /\ ats_check = NoResult

Next ==
  \/ ParseResume
  \/ ComputeHybridScore
  \/ RecommendRoles
  \/ AnalyzeAgain

Spec == Init /\ [][Next]_vars

EdgeSpec == EdgeInit /\ [][Next]_vars

----------------------------------------------------------------------------
(* compute_hybrid_score and recommend_roles taken apart into their steps,   *)
(* which run in any order                                                   *)

ComponentNames ==
  {"skill_coverage", "semantic_similarity", "evidence_strength",
   "impact_quality"}

\* the (role_key, role_data) pairs recommend_roles iterates over
RECURSIVE RolesOfTaxonomy(_, _)
RolesOfTaxonomy(taxonomy, n) ==
  IF n > Len(taxonomy) THEN <<>>
  ELSE Get(taxonomy[n][2], "roles", <<>>) \o RolesOfTaxonomy(taxonomy, n + 1)

\* the embedding model missing and present
OrderCollaborators == {c \in Collaborators : c.tfidf = Half}

\* the request of Init; a catalog of tracks is entered with its first key
OrderInit ==
  /\ TAX \in Catalogs
  /\ file_bytes = NoResult
  /\ resume_text \in Texts
  /\ selected_role \in {TAX[n][1] : n \in 1..Len(TAX)}
  /\ TAX = TrackCatalog => selected_role = TAX[1][1]
  /\ collaborators = NoCollaborators
  /\ model_loaded = FALSE
  /\ pc = "start"
  /\ parsed_resume = NoResult
  /\ hybrid_score = NoResult
  /\ role_recommendation = NoResult
  /\ run = 1
  /\ first_run = NoResult
  /\ ats_check = NoResult

\* skill_analysis = analyze_skills_sectioned(parsed_resume, role_taxonomy)
AnalyzeSkills ==
  /\ pc = "parsed"
  /\ hybrid_score' =
       [skill_analysis |->
          analyze_skills_sectioned(parsed_resume, DictAt(TAX, selected_role)),
        parsed_resume |-> parsed_resume]
  /\ pc' = "scoring"
  /\ UNCHANGED <<inputs, collaborators, model_loaded, parsed_resume,
                 role_recommendation, run, first_run, ats_check>>

\* skill_score = calculate_skill_coverage_score(skill_analysis)
CalculateSkillCoverage ==
  /\ pc = "scoring"
  /\ "skill_coverage" \notin DOMAIN hybrid_score
  /\ hybrid_score' =
       hybrid_score @@
       ("skill_coverage" :>
          calculate_skill_coverage_score(hybrid_score.skill_analysis))
  /\ UNCHANGED <<inputs, collaborators, model_loaded, pc, parsed_resume,
                 role_recommendation, run, first_run, ats_check>>

\* semantic_score = calculate_semantic_score(resume_text, jd_text, parsed_resume)
CalculateSemantic ==
  /\ pc = "scoring"
  /\ "semantic_similarity" \notin DOMAIN hybrid_score
  /\ \E c \in OrderCollaborators :
        /\ collaborators' = c
        /\ model_loaded' = (model_loaded \/ c.available)
        /\ hybrid_score' =
             hybrid_score @@
             ("semantic_similarity" :>
                calculate_semantic_score(hybrid_score.parsed_resume, c))
  /\ UNCHANGED <<inputs, pc, parsed_resume, role_recommendation, run,
                 first_run, ats_check>>

\* evidence_score = calculate_evidence_score(skill_analysis, parsed_resume),
\* taking its count of skills from the coverage component when that is there
CalculateEvidence_reads_coverage ==
  /\ pc = "scoring"
  /\ "evidence_strength" \notin DOMAIN hybrid_score
  /\ hybrid_score' =
       hybrid_score @@
       ("evidence_strength" :>
          IF "skill_coverage" \in DOMAIN hybrid_score
          THEN [calculate_evidence_score(hybrid_score.skill_analysis)
                  EXCEPT !.details = hybrid_score.skill_coverage.details]
          ELSE calculate_evidence_score(hybrid_score.skill_analysis))
  /\ UNCHANGED <<inputs, collaborators, model_loaded, pc, parsed_resume,
                 role_recommendation, run, first_run, ats_check>>

\* evidence_score = calculate_evidence_score(skill_analysis, parsed_resume)
CalculateEvidence ==
  /\ pc = "scoring"
  /\ "evidence_strength" \notin DOMAIN hybrid_score
  /\ hybrid_score' =
       hybrid_score @@
       ("evidence_strength" :>
          calculate_evidence_score(hybrid_score.skill_analysis))
  /\ UNCHANGED <<inputs, collaborators, model_loaded, pc, parsed_resume,
                 role_recommendation, run, first_run, ats_check>>

\* impact_score = calculate_impact_score(resume_text, parsed_resume)
CalculateImpact ==
  /\ pc = "scoring"
  /\ "impact_quality" \notin DOMAIN hybrid_score
  /\ hybrid_score' =
       hybrid_score @@
       ("impact_quality" :>
          calculate_impact_score(hybrid_score.parsed_resume))
  /\ UNCHANGED <<inputs, collaborators, model_loaded, pc, parsed_resume,
                 role_recommendation, run, first_run, ats_check>>

\* return HybridScore(...)
ReturnHybridScore ==
  /\ pc = "scoring"
  /\ ComponentNames \subseteq DOMAIN hybrid_score
  /\ pc' = "scored"
  /\ UNCHANGED <<inputs, collaborators, model_loaded, parsed_resume,
                 hybrid_score, role_recommendation, run, first_run, ats_check>>

\* matches = [], all_skills = set()
BeginRecommend ==
  /\ pc = "scored"
  /\ role_recommendation' = [matches |-> <<>>, resume_skills |-> {},
                             passed |-> {}]
  /\ pc' = "recommending"
  /\ UNCHANGED <<inputs, collaborators, model_loaded, parsed_resume,
                 hybrid_score, run, first_run, ats_check>>

\* the body of the loop of recommend_roles for one role
RolePass ==
  /\ pc = "recommending"
  /\ \E n \in 1..Len(RolesOfTaxonomy(TAX, 1)) \ role_recommendation.passed :
        LET role == RolesOfTaxonomy(TAX, 1)[n]
            role_match ==
              WithRoleKey(calculate_role_alignment(role[2], parsed_resume),
                          role[1])
        IN  role_recommendation' =
              [matches |-> Append(role_recommendation.matches, role_match),
               resume_skills |-> role_recommendation.resume_skills
                                   \cup MatchedSkills(role_match),
               passed |-> role_recommendation.passed \cup {n}]
  /\ UNCHANGED <<inputs, collaborators, model_loaded, pc, parsed_resume,
                 hybrid_score, run, first_run, ats_check>>

\* matches.sort(...); return RoleRecommendation(matches, all_skills)
ReturnRecommendation ==
  /\ pc = "recommending"
  /\ role_recommendation.passed = 1..Len(RolesOfTaxonomy(TAX, 1))
  /\ role_recommendation' =
       [matches |-> SortDesc(role_recommendation.matches,
                             LAMBDA m : m.alignment_score),
        resume_skills |-> role_recommendation.resume_skills]
  /\ pc' = "done"
  /\ UNCHANGED <<inputs, collaborators, model_loaded, parsed_resume,
                 hybrid_score, run, first_run, ats_check>>

OrderNext ==
  \/ ParseResume
  \/ AnalyzeSkills
  \/ CalculateSkillCoverage
  \/ CalculateSemantic
  \/ CalculateEvidence
  \/ CalculateImpact
  \/ ReturnHybridScore
  \/ BeginRecommend
  \/ RolePass
  \/ ReturnRecommendation

OrderSpec == OrderInit /\ [][OrderNext]_vars

----------------------------------------------------------------------------
(* clean.py, extract.py: the text of an uploaded file *)

RECURSIVE SubFrom(_, _, _, _)
SubFrom(matches, n, repl, s) ==
  IF n > Len(matches)
  THEN Slice(s, IF n = 1 THEN 0 ELSE matches[n - 1][2], Len(s))
  ELSE Slice(s, IF n = 1 THEN 0 ELSE matches[n - 1][2], matches[n][1])
       \o repl \o SubFrom(matches, n + 1, repl, s)

\* re.sub(r, repl, s)
sub(r, repl, s) == SubFrom(finditer(r, s, NOFLAGS), 1, repl, s)

\* clean_text with re.sub(r"[ \t]+", " ", t): line breaks stay
clean_text_keeps_lines(t) == strip(sub(Plus(Cls({" ", "\t"})), " ", t))

\* re.sub(r"\s+", " ", t).strip(); the texts hold no NUL character
clean_text(t) == strip(sub(Plus(Cls(Space)), " ", t))

ExtractionResult(raw_text, cleaned_text, char_count) ==
  [text |-> cleaned_text,
   success |-> Len(cleaned_text) >= MIN_TEXT_LENGTH,
   char_count |-> Len(cleaned_text),
   truncated |-> char_count > MAX_RESUME_CHARS]

\* extract_txt, and extract_pdf and extract_docx once the pages or
\* paragraphs are joined into raw_text
extract_txt(raw_text) ==
  ExtractionResult(raw_text, clean_text(Take(raw_text, MAX_RESUME_CHARS)),
                   Len(raw_text))

extract_any(raw_text) == extract_txt(raw_text)

\* a file is uploaded and Analyze is pressed
UploadInit ==
  /\ \/ TAX \in Catalogs /\ file_bytes \in Texts
     \/ TAX = EdgeCatalog /\ file_bytes \in EdgeTexts
  /\ resume_text = NoResult
  /\ selected_role \in {TAX[n][1] : n \in 1..Len(TAX)}
  /\ collaborators = NoCollaborators
  /\ model_loaded = FALSE
  /\ pc = "upload"
  /\ parsed_resume = NoResult
  /\ hybrid_score = NoResult
  /\ role_recommendation = NoResult
  /\ run = 1
  /\ first_run = NoResult
  /\ ats_check = NoResult

\* 1. Extract Text; st.stop() when the extraction is no success
ExtractAny ==
  /\ pc = "upload"
  /\ resume_text' = extract_any(file_bytes).text
  /\ pc' = IF extract_any(file_bytes).success THEN "start" ELSE "stopped"
  /\ UNCHANGED <<TAX, file_bytes, selected_role, collaborators, model_loaded,
                 parsed_resume, hybrid_score, role_recommendation, run,
                 first_run, ats_check>>

UploadNext ==
  \/ ExtractAny
  \/ ParseResume
  \/ ComputeHybridScore
  \/ RecommendRoles
  \/ AnalyzeAgain

UploadSpec == UploadInit /\ [][UploadNext]_vars

----------------------------------------------------------------------------
(* sections.py get_section_balance, ats.py check_section_balance *)

\* Section.word_count: len(self.content.split())
word_count(content) ==
  Cardinality({i \in 0..(Len(content) - 1) :
                 /\ At(content, i) \notin Space
                 /\ i = 0 \/ At(content, i - 1) \in Space})

RECURSIVE TotalWords(_, _)
TotalWords(sections, n) ==
  IF n > Len(sections) THEN 0
  ELSE word_count(sections[n].content) + TotalWords(sections, n + 1)

\* round(words / total_words * 100, 1), in tenths of a percent; a half goes
\* to the even tenth
RoundedTenths(words, total_words) ==
  LET q == (words * 1000) \div total_words
      r == (words * 1000) % total_words
  IN  IF 2 * r > total_words \/ (2 * r = total_words /\ q % 2 = 1)
        THEN q + 1 ELSE q

\* the dict comprehension of get_section_balance: one entry per section,
\* keyed by its type
RECURSIVE BalanceFrom(_, _, _, _)
BalanceFrom(sections, n, total_words, balance) ==
  IF n > Len(sections) THEN balance
  ELSE BalanceFrom(sections, n + 1, total_words,
         DictSet(balance, sections[n].section_type,
                 Rat(RoundedTenths(word_count(sections[n].content),
                                   total_words), 10)))

get_section_balance(sections) ==
  IF TotalWords(sections, 1) = 0 THEN <<>>
  ELSE BalanceFrom(sections, 1, TotalWords(sections, 1), <<>>)

\* balance.get(section_type, 0)
Percentage(balance, section_type) ==
  IF DictHas(balance, section_type) THEN DictAt(balance, section_type)
  ELSE Zero

\* a percentage of the balance in tenths
Tenths(pct) == (pct[1] * 10) \div pct[2]

\* f"{pct}": a float of the balance with its one decimal, the default as 0
PercentageText(balance, section_type) ==
  IF DictHas(balance, section_type)
    THEN ToString(Tenths(DictAt(balance, section_type)) \div 10) \o "."
         \o ToString(Tenths(DictAt(balance, section_type)) % 10)
    ELSE "0"

ATSCheck(balance, issues) ==
  [name |-> "Section Balance",
   status |-> IF issues # <<>> THEN "warning" ELSE "pass",
   message |-> IF issues # <<>> THEN join("; ", issues)
               ELSE "Sections are well-balanced",
   details |-> "Experience: " \o PercentageText(balance, "experience")
               \o "%, Skills: " \o PercentageText(balance, "skills")
               \o "%, Education: " \o PercentageText(balance, "education")
               \o "%",
   suggestion |-> IF issues # <<>> THEN "Balance content across sections"
                  ELSE "",
   balance |-> balance]

\* the issues of check_section_balance
BalanceIssues(exp_pct, skills_pct) ==
  (IF RatLt(exp_pct, <<20, 1>>) THEN <<"Experience section too brief">>
   ELSE <<>>)
  \o (IF RatLt(<<80, 1>>, exp_pct)
        THEN <<"Experience section dominates resume">> ELSE <<>>)
  \o (IF RatLt(<<40, 1>>, skills_pct)
        THEN <<"Skills section may be too long (consider pruning)">>
        ELSE <<>>)

check_section_balance(sections) ==
  ATSCheck(get_section_balance(sections),
           BalanceIssues(Percentage(get_section_balance(sections),
                                    "experience"),
                         Percentage(get_section_balance(sections),
                                    "skills")))

\* the resumes of both families
BalanceInit ==
  /\ \/ TAX \in Catalogs /\ resume_text \in Texts
     \/ TAX = EdgeCatalog /\ resume_text \in EdgeTexts
  /\ file_bytes = NoResult
  /\ selected_role = TAX[1][1]
  /\ collaborators = NoCollaborators
  /\ model_loaded = FALSE
  /\ pc = "start"
  /\ parsed_resume = NoResult
  /\ hybrid_score = NoResult
  /\ role_recommendation = NoResult
  /\ run = 1
  /\ first_run = NoResult
  /\ ats_check = NoResult

\* 4. ATS Analysis: the Section Balance check of analyze_ats
CheckSectionBalance ==
  /\ pc = "parsed"
  /\ ats_check' = check_section_balance(parsed_resume)
  /\ pc' = "checked"
  /\ UNCHANGED <<inputs, collaborators, model_loaded, parsed_resume,
                 hybrid_score, role_recommendation, run, first_run>>

BalanceNext ==
  \/ ParseResume
  \/ CheckSectionBalance

BalanceSpec == BalanceInit /\ [][BalanceNext]_vars
----------------------------------------------------------------------------
(* Properties *)

\* C1: for every parsed resume and role taxonomy, in the result of
\* analyze_skills_sectioned the matched and missing lists of a tier together
\* have as many entries as the tier defines skills, and every skill id of the
\* tier is in exactly one of the two lists; for must-have and nice-to-have.
C1_MatchedMissingPartition ==
  pc \in {"scored", "done"} =>
    LET role == DictAt(TAX, selected_role)
        sa == hybrid_score.skill_analysis
        Occurs(items, x) == Cardinality({n \in 1..Len(items) : items[n] = x})
        Partition(skills, matched, missing) ==
          /\ Len(matched) + Len(missing) = Len(skills)
          /\ \A n \in 1..Len(skills) :
                Occurs(matched, skills[n][1]) + Occurs(missing, skills[n][1])
                  = 1
    IN  /\ Partition(Get(role, "must_have", <<>>), sa.must_have_matched,
                     sa.must_have_missing)
        /\ Partition(Get(role, "nice_to_have", <<>>), sa.nice_to_have_matched,
                     sa.nice_to_have_missing)

\* a role with a matched and a missing must-have skill and a matched
\* nice-to-have skill
C1_Witness ==
  /\ pc = "scored"
  /\ hybrid_score.skill_analysis.must_have_matched # <<>>
  /\ hybrid_score.skill_analysis.must_have_missing # <<>>
  /\ hybrid_score.skill_analysis.nice_to_have_matched # <<>>

\* C2: final_score is the sum over the four components of score x weight,
\* the weights are 0.4 (Skill Coverage), 0.3 (Semantic Similarity), 0.2
\* (Evidence Strength) and 0.1 (Impact Quality), and they sum to exactly 1.
C2_FinalScoreIsWeightedSum ==
  pc \in {"scored", "done"} =>
    LET hs == hybrid_score IN
    /\ hs.skill_coverage.weight = <<2, 5>>
    /\ hs.semantic_similarity.weight = <<3, 10>>
    /\ hs.evidence_strength.weight = <<1, 5>>
    /\ hs.impact_quality.weight = <<1, 10>>
    /\ RatAdd(RatAdd(hs.skill_coverage.weight, hs.semantic_similarity.weight),
              RatAdd(hs.evidence_strength.weight, hs.impact_quality.weight))
         = One
    /\ final_score(hs)
         = RatAdd(RatAdd(RatMul(<<2, 5>>, hs.skill_coverage.score),
                         RatMul(<<3, 10>>, hs.semantic_similarity.score)),
                  RatAdd(RatMul(<<1, 5>>, hs.evidence_strength.score),
                         RatMul(<<1, 10>>, hs.impact_quality.score)))

\* all four components contribute, with differing scores
C2_Witness ==
  /\ pc = "scored"
  /\ \A n \in 1..4 : RatLt(Zero, all_components(hybrid_score)[n].score)
  /\ hybrid_score.skill_coverage.score # hybrid_score.semantic_similarity.score
  /\ hybrid_score.evidence_strength.score # hybrid_score.impact_quality.score

\* C3: every component score of a HybridScore is within [0,1], so that
\* 0 <= final_score <= 1, for every value the similarity computation returns.
C3_ScoresWithinUnitInterval ==
  pc \in {"scored", "done"} =>
    /\ \A n \in 1..4 :
          /\ RatLe(Zero, all_components(hybrid_score)[n].score)
          /\ RatLe(all_components(hybrid_score)[n].score, One)
    /\ RatLe(Zero, final_score(hybrid_score))
    /\ RatLe(final_score(hybrid_score), One)

\* C4: for a text in which the heading pattern matches nowhere, parse_resume
\* returns exactly one section, of type Other, with empty heading, whose
\* content is the whole text and whose offsets are 0 and len(text).
C4_NoHeadingOneOtherSection ==
  (/\ pc # "start"
   /\ \A p \in 0..Len(resume_text) :
         Ends(section_pattern, resume_text, p, IGNORECASE_MULTILINE) = <<>>)
  => parsed_resume = << [section_type |-> "other", heading |-> "",
                         content |-> resume_text, start_pos |-> 0,
                         end_pos |-> Len(resume_text)] >>

\* a text of several lines, none of them a heading, has been parsed
C4_Witness ==
  /\ pc = "parsed"
  /\ Len(parsed_resume) = 1
  /\ parsed_resume[1].section_type = "other"
  /\ find(resume_text, "\n") < Len(resume_text) - 1
  /\ find(resume_text, "\n") >= 0
  /\ \A p \in 0..Len(resume_text) :
        Ends(section_pattern, resume_text, p, IGNORECASE_MULTILINE) = <<>>

\* C5: parse_resume never returns an empty section list, whatever the text
\* (empty, short, or made of heading lines only).
C5_SectionListNeverEmpty ==
  pc # "start" => parsed_resume # <<>>

\* C6: a detected skill with at least one evidence item that is an exact
\* whole-word occurrence of an alias has confidence HIGH, whatever else
\* matched.
C6_ExactEvidenceIsHigh ==
  pc \in {"scored", "done"} =>
    LET skills == DictValues(hybrid_score.skill_analysis.detected_skills)
        WholeWordAt(content, a, p) ==
          /\ Slice(content, p, p + Len(a)) = a
          /\ ~(p > 0 /\ At(content, p - 1) \in Word)
          /\ ~(p + Len(a) < Len(content) /\ At(content, p + Len(a)) \in Word)
        Exact(e) ==
          \E k \in 1..Len(parsed_resume) :
             /\ parsed_resume[k].section_type = e.section_type
             /\ WholeWordAt(lower(parsed_resume[k].content),
                            lower(e.matched_alias), e.position)
    IN  \A n \in 1..Len(skills) :
           (\E m \in 1..Len(skills[n].evidence_list) :
               Exact(skills[n].evidence_list[m]))
           => skills[n].confidence = "high"

\* a skill with evidence in sections of two types
C6_Witness ==
  /\ pc = "scored"
  /\ \E n \in 1..Len(hybrid_score.skill_analysis.detected_skills) :
        LET skill == hybrid_score.skill_analysis.detected_skills[n][2] IN
        /\ skill.confidence = "high"
        /\ \E a, b \in 1..Len(skill.evidence_list) :
              skill.evidence_list[a].section_type
                # skill.evidence_list[b].section_type

\* C7: a skill without exact whole-word hit in any section, one of whose
\* aliases of length >= 4 has partial-ratio similarity at or above the
\* threshold with the text of a section, is reported as matched, with
\* confidence MEDIUM and with an Evidence entry for that section.
C7_FuzzyMatchReported ==
  pc \in {"scored", "done"} =>
    LET role == DictAt(TAX, selected_role)
        sa == hybrid_score.skill_analysis
        Listed(items, x) == \E n \in 1..Len(items) : items[n] = x
        ExactHit(aliases) ==
          \E k \in 1..Len(parsed_resume), n \in 1..Len(aliases) :
             search(AliasPattern(lower(aliases[n])),
                    lower(parsed_resume[k].content), NOFLAGS) # <<>>
        FuzzyHit(aliases, k) ==
          \E n \in 1..Len(aliases) :
             /\ Len(aliases[n]) >= FuzzyMinLen
             /\ PartialRatioAtLeast(lower(aliases[n]),
                                    lower(parsed_resume[k].content),
                                    FuzzyThreshold)
        Reported(skills, matched) ==
          \A n \in 1..Len(skills), k \in 1..Len(parsed_resume) :
             (/\ ~ExactHit(Get(skills[n][2], "aliases", <<>>))
              /\ FuzzyHit(Get(skills[n][2], "aliases", <<>>), k))
             => /\ Listed(matched, skills[n][1])
                /\ DictHas(sa.detected_skills, skills[n][1])
                /\ DictAt(sa.detected_skills, skills[n][1]).confidence
                     = "medium"
                /\ \E m \in 1..Len(DictAt(sa.detected_skills,
                                          skills[n][1]).evidence_list) :
                      DictAt(sa.detected_skills, skills[n][1])
                        .evidence_list[m].section_type
                        = parsed_resume[k].section_type
    IN  /\ Reported(Get(role, "must_have", <<>>), sa.must_have_matched)
        /\ Reported(Get(role, "nice_to_have", <<>>), sa.nice_to_have_matched)

\* C8: when the embedding model is unavailable, the Semantic component's
\* score is the TF-IDF similarity of resume and job description and its
\* details carry the marker of the degraded mode; the HybridScore has its
\* four components.
C8_SemanticFallsBackToTfidf ==
  (pc \in {"scored", "done"} /\ ~collaborators.available) =>
    /\ Len(all_components(hybrid_score)) = 4
    /\ hybrid_score.semantic_similarity.score = tfidf_similarity(collaborators)
    /\ contains(hybrid_score.semantic_similarity.details,
                "embedding unavailable")

C10_OneMatchPerRole ==
  (/\ pc = "done"
   /\ \A n \in 1..Len(TAX) : "must_have" \in DOMAIN TAX[n][2])
  => /\ Len(role_recommendation.matches) = Len(TAX)
     /\ \A n \in 1..Len(TAX) :
           Cardinality({k \in 1..Len(role_recommendation.matches) :
                          /\ role_recommendation.matches[k].role_key
                               = TAX[n][1]
                          /\ role_recommendation.matches[k].role_title
                               = TAX[n][2].title}) = 1


\* C11: recommend_roles returns its matches sorted by alignment_score in
\* descending order, each alignment_score being min(1, 0.7 * must-have
\* coverage + 0.3 * nice-to-have coverage + 0.1 * proven skills ratio) of
\* its role; roles of equal alignment keep the order in which the catalog
\* declares them.
C11_RolesRankedByAlignment ==
  pc = "done" =>
    LET matches == role_recommendation.matches
        RECURSIVE Declared(_)
        Declared(n) == IF n > Len(TAX) THEN <<>>
                       ELSE Get(TAX[n][2], "roles", <<>>) \o Declared(n + 1)
        roles == Declared(1)
        Place(k) == CHOOSE p \in 1..Len(roles) : roles[p][1] = matches[k].role_key
        Ratio(a, b) == IF a + b = 0 THEN Zero ELSE Rat(a, a + b)
        Detected(k) == analyze_skills_sectioned(parsed_resume, roles[Place(k)][2]).detected_skills
        Proven(d) == {n \in 1..Len(d) :
                        \E e \in 1..Len(d[n][2].evidence_list) :
                           d[n][2].evidence_list[e].section_type
                             \in {"experience", "projects", "certifications"}}
        Sum(k, d) == RatAdd(RatAdd(RatMul(<<7, 10>>,
                                          Ratio(Len(matches[k].must_have_matched),
                                                Len(matches[k].must_have_missing))),
                                   RatMul(<<3, 10>>,
                                          Ratio(Len(matches[k].nice_to_have_matched),
                                                Len(matches[k].nice_to_have_missing)))),
                            RatMul(<<1, 10>>,
                                   IF d = <<>> THEN Zero
                                   ELSE Rat(Cardinality(Proven(d)), Len(d))))
    IN  /\ \A k \in 1..Len(matches) :
              /\ \E p \in 1..Len(roles) : roles[p][1] = matches[k].role_key
              /\ matches[k].alignment_score = RatMin(One, Sum(k, Detected(k)))
        /\ \A j, k \in 1..Len(matches) :
              j < k =>
                /\ RatLe(matches[k].alignment_score, matches[j].alignment_score)
                /\ matches[k].alignment_score = matches[j].alignment_score
                     => Place(j) < Place(k)

\* the ranking differs from the order of declaration, two roles are tied and
\* a role lies strictly between no alignment and full alignment
C11_Witness ==
  /\ pc = "done"
  /\ Len(role_recommendation.matches) = 4
  /\ [k \in 1..4 |-> role_recommendation.matches[k].role_key]
       # <<"data_engineer", "backend_developer", "platform_engineer",
           "analyst">>
  /\ \E k \in 1..3 :
        role_recommendation.matches[k].alignment_score
          = role_recommendation.matches[k + 1].alignment_score
  /\ \E k \in 1..4 :
        /\ RatLt(Zero, role_recommendation.matches[k].alignment_score)
        /\ RatLt(role_recommendation.matches[k].alignment_score, One)

\* C12 as stated: the Skill Coverage score is 0.7 * (matched must-have /
\* total must-have) + 0.3 * (matched nice-to-have / total nice-to-have), a
\* ratio being 0 when its tier defines no skill; when every must-have skill
\* is missing and no nice-to-have skill is matched the score is 0 and a
\* suggestion of the component names every missing must-have skill.
C12_SuggestionNamesEveryMissing ==
  pc \in {"scored", "done"} =>
    LET role == DictAt(TAX, selected_role)
        sa == hybrid_score.skill_analysis
        comp == hybrid_score.skill_coverage
        Ratio(n, total) == IF total = 0 THEN Zero ELSE Rat(n, total)
        Name(id) == title(replace(id, "_", " "))
    IN  /\ comp.score
             = RatAdd(RatMul(<<7, 10>>,
                             Ratio(Len(sa.must_have_matched),
                                   Len(Get(role, "must_have", <<>>)))),
                      RatMul(<<3, 10>>,
                             Ratio(Len(sa.nice_to_have_matched),
                                   Len(Get(role, "nice_to_have", <<>>)))))
        /\ (/\ sa.must_have_missing # <<>>
            /\ sa.must_have_matched = <<>>
            /\ sa.nice_to_have_matched = <<>>)
           => /\ comp.score = Zero
              /\ \E s \in 1..Len(comp.suggestions) :
                    \A n \in 1..Len(sa.must_have_missing) :
                       contains(comp.suggestions[s],
                                Name(sa.must_have_missing[n]))

\* C12: the Skill Coverage score is 0.7 * (matched must-have / total
\* must-have) + 0.3 * (matched nice-to-have / total nice-to-have), a ratio
\* being 0 when its tier defines no skill; when every must-have skill is
\* missing and no nice-to-have skill is matched the score is 0 and a
\* suggestion of the component names the first three missing must-have
\* skills, in the order of the catalog, and no other missing skill.
C12_SuggestionNamesFirstThreeMissing ==
  pc \in {"scored", "done"} =>
    LET role == DictAt(TAX, selected_role)
        sa == hybrid_score.skill_analysis
        comp == hybrid_score.skill_coverage
        Ratio(n, total) == IF total = 0 THEN Zero ELSE Rat(n, total)
        Name(id) == title(replace(id, "_", " "))
    IN  /\ comp.score
             = RatAdd(RatMul(<<7, 10>>,
                             Ratio(Len(sa.must_have_matched),
                                   Len(Get(role, "must_have", <<>>)))),
                      RatMul(<<3, 10>>,
                             Ratio(Len(sa.nice_to_have_matched),
                                   Len(Get(role, "nice_to_have", <<>>)))))
        /\ (/\ sa.must_have_missing # <<>>
            /\ sa.must_have_matched = <<>>
            /\ sa.nice_to_have_matched = <<>>)
           => /\ comp.score = Zero
              /\ \E s \in 1..Len(comp.suggestions) :
                    \A n \in 1..Len(sa.must_have_missing) :
                       contains(comp.suggestions[s],
                                Name(sa.must_have_missing[n]))
                       <=> n <= 3
              /\ [n \in 1..Len(sa.must_have_missing) |->
                    sa.must_have_missing[n]]
                 = [n \in 1..Len(sa.must_have_missing) |->
                      Get(role, "must_have", <<>>)[n][1]]

\* a role with four must-have skills, all of them missing, and none of its
\* nice-to-have skills matched
C12_Witness ==
  /\ pc = "scored"
  /\ Len(hybrid_score.skill_analysis.must_have_missing) = 4
  /\ hybrid_score.skill_analysis.must_have_matched = <<>>
  /\ hybrid_score.skill_analysis.nice_to_have_matched = <<>>
  /\ hybrid_score.skill_analysis.nice_to_have_missing # <<>>
  /\ hybrid_score.skill_coverage.score = Zero
  /\ Len(hybrid_score.skill_coverage.suggestions) = 1

\* C13: the Evidence Strength score is min(1, proven ratio + 0.5 * listed-only
\* ratio) over all detected skills, a skill whose evidence lies only in
\* Skills or Summary sections counting half of a skill with evidence in an
\* Experience, Projects or Certifications section; when no skill is detected
\* the score is 0 and the component carries a suggestion to add evidence.
C13_EvidenceStrengthScore ==
  pc \in {"scored", "done"} =>
    LET d == hybrid_score.skill_analysis.detected_skills
        comp == hybrid_score.evidence_strength
        Types(n) == {d[n][2].evidence_list[e].section_type :
                       e \in 1..Len(d[n][2].evidence_list)}
        proven == {n \in 1..Len(d) :
                     Types(n) \cap {"experience", "projects", "certifications"}
                       # {}}
        listed == {n \in 1..Len(d) :
                     Types(n) # {} /\ Types(n) \subseteq {"skills", "summary"}}
        halves == 2 * Cardinality(proven) + Cardinality(listed)
    IN  IF d = <<>>
          THEN /\ comp.score = Zero
               /\ \E s \in 1..Len(comp.suggestions) :
                     contains(comp.suggestions[s], "evidence")
          ELSE comp.score = (IF halves >= 2 * Len(d) THEN One
                             ELSE Rat(halves, 2 * Len(d)))

\* of three detected skills, some are proven and one is only listed: the
\* score is neither 0 nor 1
C13_Witness ==
  /\ pc = "scored"
  /\ Len(hybrid_score.skill_analysis.detected_skills) = 3
  /\ hybrid_score.evidence_strength.score = <<5, 6>>

\* C14: a detected skill is proven iff at least one of its evidence items
\* lies in a section of type Experience, Projects or Certifications, and is
\* listed-only iff it has evidence and all of it lies in Skills or Summary
\* sections; proven_skills_ratio is the number of proven detected skills
\* over the number of detected skills, and 0 when nothing is detected.
C14_ProvenAndListedOnly ==
  pc \in {"scored", "done"} =>
    LET sa == hybrid_score.skill_analysis
        d == sa.detected_skills
        Types(n) == {d[n][2].evidence_list[e].section_type :
                       e \in 1..Len(d[n][2].evidence_list)}
        proven == {n \in 1..Len(d) :
                     Types(n) \cap {"experience", "projects", "certifications"}
                       # {}}
    IN  /\ \A n \in 1..Len(d) :
              /\ is_proven(d[n][2]) <=> n \in proven
              /\ is_only_listed(d[n][2])
                   <=> (Types(n) # {} /\ Types(n) \subseteq {"skills", "summary"})
        /\ proven_skills_ratio(sa)
             = (IF d = <<>> THEN Zero ELSE Rat(Cardinality(proven), Len(d)))

\* the four detected skills: one proven by a Certifications section and
\* listed in a Skills section too, one proven by a Projects section, one
\* only listed in a Summary section and one only in a Skills section
C14_Witness ==
  /\ pc = "scored"
  /\ LET d == hybrid_score.skill_analysis.detected_skills
         Types(n) == {d[n][2].evidence_list[e].section_type :
                        e \in 1..Len(d[n][2].evidence_list)}
     IN  /\ \E n \in 1..Len(d) : {"certifications", "skills"} \subseteq Types(n)
         /\ \E n \in 1..Len(d) : Types(n) = {"summary"}
         /\ \E n \in 1..Len(d) : Types(n) = {"projects"}
         /\ \E n \in 1..Len(d) : Types(n) = {"skills"}
         /\ proven_skills_ratio(hybrid_score.skill_analysis) = <<1, 2>>

\* C15: a skill of the role is reported as matched, and is in detected_skills
\* with a non-empty evidence list, iff one of its aliases occurs as a whole
\* word, in any case, in the content of some section of the parsed resume,
\* whatever the type of the section; otherwise it is reported as missing and
\* is not in detected_skills.
C15_MatchedIffAliasOccurs ==
  pc \in {"scored", "done"} =>
    LET role == DictAt(TAX, selected_role)
        sa == hybrid_score.skill_analysis
        OccursAt(a, t, i) ==
          /\ Slice(t, i, i + Len(a)) = a
          /\ IsWordAt(t, i - 1) # IsWordAt(t, i)
          /\ IsWordAt(t, i + Len(a) - 1) # IsWordAt(t, i + Len(a))
        Occurs(a, t) == \E i \in 0..(Len(t) - Len(a)) : OccursAt(a, t, i)
        Present(skill) ==
          \E k \in 1..Len(parsed_resume) :
             \E n \in 1..Len(Get(skill, "aliases", <<>>)) :
                Occurs(lower(skill.aliases[n]), lower(parsed_resume[k].content))
        In(list, id) == \E n \in 1..Len(list) : list[n] = id
        Reported(skills, matched, missing) ==
          \A n \in 1..Len(skills) :
             IF Present(skills[n][2])
               THEN /\ In(matched, skills[n][1])
                    /\ ~In(missing, skills[n][1])
                    /\ DictHas(sa.detected_skills, skills[n][1])
                    /\ DictAt(sa.detected_skills, skills[n][1]).evidence_list
                         # <<>>
               ELSE /\ In(missing, skills[n][1])
                    /\ ~In(matched, skills[n][1])
                    /\ ~DictHas(sa.detected_skills, skills[n][1])
    IN  /\ Reported(Get(role, "must_have", <<>>), sa.must_have_matched,
                    sa.must_have_missing)
        /\ Reported(Get(role, "nice_to_have", <<>>), sa.nice_to_have_matched,
                    sa.nice_to_have_missing)

\* a skill is matched by an occurrence in the Contact section alone, and
\* another skill of the role is missing
C15_Witness ==
  /\ pc = "scored"
  /\ hybrid_score.skill_analysis.must_have_missing # <<>>
  /\ \E n \in 1..Len(hybrid_score.skill_analysis.detected_skills) :
        LET evidence_list ==
              hybrid_score.skill_analysis.detected_skills[n][2].evidence_list
        IN  /\ evidence_list # <<>>
            /\ \A e \in 1..Len(evidence_list) :
                  evidence_list[e].section_type = "contact"

\* C16: top_suggestions takes the four components by ascending score, equal
\* scores in the fixed order Skill Coverage, Semantic, Evidence Strength,
\* Impact Quality, takes the first at most 2 suggestions of each in that
\* order and stops at 5: it never holds more than 5 suggestions nor more
\* than 2 of one component, and no suggestion of a higher-scoring component
\* precedes one of a lower-scoring component.
C16_TopSuggestions ==
  pc \in {"scored", "done"} =>
    LET comps == <<hybrid_score.skill_coverage,
                   hybrid_score.semantic_similarity,
                   hybrid_score.evidence_strength,
                   hybrid_score.impact_quality>>
        top == top_suggestions(hybrid_score)
        Before(a, b) == \/ RatLt(comps[a].score, comps[b].score)
                        \/ comps[a].score = comps[b].score /\ a < b
        rank == CHOOSE p \in [1..4 -> 1..4] :
                  \A i, j \in 1..4 : i < j => Before(p[i], p[j])
        FirstTwo(n) == SubSeq(comps[n].suggestions, 1,
                              IF Len(comps[n].suggestions) < 2
                                THEN Len(comps[n].suggestions) ELSE 2)
        all == FirstTwo(rank[1]) \o FirstTwo(rank[2]) \o FirstTwo(rank[3])
               \o FirstTwo(rank[4])
        Of(i) == {n \in 1..4 : \E k \in 1..Len(comps[n].suggestions) :
                                  comps[n].suggestions[k] = top[i]}
    IN  /\ top = SubSeq(all, 1, IF Len(all) < 5 THEN Len(all) ELSE 5)
        /\ Len(top) <= 5
        /\ \A n \in 1..4 : Cardinality({i \in 1..Len(top) : n \in Of(i)}) <= 2
        /\ \A i, j \in 1..Len(top) :
              i < j => \A a \in Of(i), b \in Of(j) :
                          ~RatLt(comps[b].score, comps[a].score)

\* a component has three suggestions, the first two of each component are
\* more than 5 between them, and the first suggestion kept is not one of
\* Skill Coverage, which has suggestions too
C16_Witness ==
  /\ pc = "scored"
  /\ Len(hybrid_score.skill_coverage.suggestions) = 2
  /\ Len(hybrid_score.semantic_similarity.suggestions) = 2
  /\ Len(hybrid_score.impact_quality.suggestions) = 3
  /\ Len(top_suggestions(hybrid_score)) = 5
  /\ top_suggestions(hybrid_score)[1]
       # hybrid_score.skill_coverage.suggestions[1]

\* C17: the sections returned by parse_resume appear in source order and do
\* not overlap: the section of a heading starts where the heading ends and
\* ends where the next heading starts, or at the end of the text for the
\* last heading, so that of two consecutive sections the earlier ends no
\* later than the later starts; an Experience heading and then an Education
\* heading, each followed by content, give exactly those two sections.
C17_SectionsOrderedDisjoint ==
  pc = "parsed" =>
    LET matches == finditer(section_pattern, resume_text, IGNORECASE_MULTILINE)
        ends == {matches[k][2] : k \in 1..Len(matches)}
        NextStart(k) == IF k < Len(matches) THEN matches[k + 1][1]
                        ELSE Len(resume_text)
    IN  /\ \A n \in 1..Len(parsed_resume) :
              /\ 0 <= parsed_resume[n].start_pos
              /\ parsed_resume[n].start_pos <= parsed_resume[n].end_pos
              /\ parsed_resume[n].end_pos <= Len(resume_text)
        /\ \A n \in 1..(Len(parsed_resume) - 1) :
              parsed_resume[n].end_pos <= parsed_resume[n + 1].start_pos
        /\ \A n \in 1..Len(parsed_resume) :
              parsed_resume[n].heading # "" =>
                \E k \in 1..Len(matches) :
                   /\ parsed_resume[n].start_pos = matches[k][2]
                   /\ parsed_resume[n].end_pos = NextStart(k)
                   /\ parsed_resume[n].heading
                        = strip(Slice(resume_text, matches[k][1], matches[k][2]))
                   /\ parsed_resume[n].content
                        = strip(Slice(resume_text, matches[k][2], NextStart(k)))

\* an Experience heading and then a Skills heading, each followed by
\* content: exactly two sections, the first ending where the second heading
\* starts
C17_Witness ==
  /\ pc = "parsed"
  /\ Len(parsed_resume) = 2
  /\ parsed_resume[1].section_type = "experience"
  /\ parsed_resume[2].section_type = "skills"
  /\ parsed_resume[1].content # ""
  /\ parsed_resume[2].content # ""
  /\ parsed_resume[1].end_pos < parsed_resume[2].start_pos
  /\ parsed_resume[2].end_pos = Len(resume_text)

\* C18: a heading whose body, up to the next heading or the end of the
\* text, is empty or made of white space produces no section: when the text
\* has at least one heading, every section returned by parse_resume has
\* content, and no section starts at the end of a heading without body.
C18_NoSectionWithoutContent ==
  pc = "parsed" =>
    LET matches == finditer(section_pattern, resume_text, IGNORECASE_MULTILINE)
        Body(k) == Slice(resume_text, matches[k][2],
                         IF k < Len(matches) THEN matches[k + 1][1]
                         ELSE Len(resume_text))
        Blank(s) == \A i \in 0..(Len(s) - 1) : At(s, i) \in Space
    IN  matches # <<>> =>
          /\ \A n \in 1..Len(parsed_resume) : ~Blank(parsed_resume[n].content)
          /\ \A k \in 1..Len(matches) :
                Blank(Body(k)) <=>
                  ~\E n \in 1..Len(parsed_resume) :
                      /\ parsed_resume[n].heading # ""
                      /\ parsed_resume[n].start_pos = matches[k][2]

\* a heading without body followed by a heading with a body: one section,
\* that of the second heading
C18_Witness ==
  /\ pc = "parsed"
  /\ Len(finditer(section_pattern, resume_text, IGNORECASE_MULTILINE)) = 2
  /\ Len(parsed_resume) = 1
  /\ parsed_resume[1].heading # ""
  /\ parsed_resume[1].end_pos = Len(resume_text)

\* C19: when the first heading starts more than 50 characters into the text
\* and the text before it is not blank, parse_resume puts a section of type
\* Contact first, its content the text before the heading (stripped, as
\* every content is) and its offsets 0 and the start of the heading; when
\* the first heading starts at offset 50 or less, the text before it is in
\* no section.
C19_ContactBeforeFirstHeading ==
  pc = "parsed" =>
    LET matches == finditer(section_pattern, resume_text, IGNORECASE_MULTILINE)
        first_start == matches[1][1]
        before == Slice(resume_text, 0, first_start)
        Blank(s) == \A i \in 0..(Len(s) - 1) : At(s, i) \in Space
    IN  matches # <<>> =>
          IF first_start > 50 /\ ~Blank(before)
            THEN /\ parsed_resume # <<>>
                 /\ parsed_resume[1].section_type = "contact"
                 /\ parsed_resume[1].content = strip(before)
                 /\ parsed_resume[1].start_pos = 0
                 /\ parsed_resume[1].end_pos = first_start
                 /\ \A n \in 2..Len(parsed_resume) :
                       parsed_resume[n].start_pos >= matches[1][2]
            ELSE \A n \in 1..Len(parsed_resume) :
                    parsed_resume[n].start_pos >= matches[1][2]

\* a line of 50 characters before the first heading: the heading starts at
\* offset 51 and the line is the Contact section, followed by the section of
\* the heading
C19_Witness ==
  /\ pc = "parsed"
  /\ Len(parsed_resume) = 2
  /\ parsed_resume[1].section_type = "contact"
  /\ parsed_resume[1].end_pos = 51
  /\ Len(parsed_resume[1].content) = 50
  /\ parsed_resume[2].heading # ""

C21_EvidenceIffAliasStandsAlone ==
  pc = "scored" =>
    LET role == DictAt(TAX, selected_role)
        sa == hybrid_score.skill_analysis
        StandsAloneAt(a, t, i) ==
          /\ Slice(t, i, i + Len(a)) = a
          /\ ~IsWordAt(t, i - 1)
          /\ ~IsWordAt(t, i + Len(a))
        StandsAlone(a, t) ==
          \E i \in 0..(Len(t) - Len(a)) : StandsAloneAt(a, t, i)
        Occurs(a) ==
          \E k \in 1..Len(parsed_resume) :
             StandsAlone(lower(a), lower(parsed_resume[k].content))
        Recorded(id, a) ==
          /\ DictHas(sa.detected_skills, id)
          /\ \E e \in 1..Len(DictAt(sa.detected_skills, id).evidence_list) :
                DictAt(sa.detected_skills, id).evidence_list[e].matched_alias
                  = a
        AsClaimed(skills) ==
          \A n \in 1..Len(skills) :
             \A m \in 1..Len(Get(skills[n][2], "aliases", <<>>)) :
                Recorded(skills[n][1], skills[n][2].aliases[m])
                  <=> Occurs(skills[n][2].aliases[m])
    IN  /\ AsClaimed(Get(role, "must_have", <<>>))
        /\ AsClaimed(Get(role, "nice_to_have", <<>>))

\* C22: a skill definition without the aliases field, or with an empty alias
\* list, never matches: the analysis completes, the skill is in the missing
\* list of its tier, in no matched list of that tier and not in
\* detected_skills, whatever the resume says.
C22_NoAliasNeverMatches ==
  pc = "scored" =>
    LET role == DictAt(TAX, selected_role)
        sa == hybrid_score.skill_analysis
        In(list, id) == \E n \in 1..Len(list) : list[n] = id
        Missing(skills, matched, missing) ==
          \A n \in 1..Len(skills) :
             Get(skills[n][2], "aliases", <<>>) = <<>> =>
               /\ In(missing, skills[n][1])
               /\ ~In(matched, skills[n][1])
               /\ ~DictHas(sa.detected_skills, skills[n][1])
    IN  /\ Missing(Get(role, "must_have", <<>>), sa.must_have_matched,
                   sa.must_have_missing)
        /\ Missing(Get(role, "nice_to_have", <<>>), sa.nice_to_have_matched,
                   sa.nice_to_have_missing)

\* the role has a must-have skill without the aliases field and one with an
\* empty alias list, the resume names both in a section, and another skill
\* of the role is detected
C22_Witness ==
  /\ pc = "scored"
  /\ LET must_have == Get(DictAt(TAX, selected_role), "must_have", <<>>)
         Named(id) ==
           \E k \in 1..Len(parsed_resume) :
              contains(lower(parsed_resume[k].content), id)
     IN  /\ \E n \in 1..Len(must_have) :
               /\ "aliases" \notin DOMAIN must_have[n][2]
               /\ Named(must_have[n][1])
         /\ \E n \in 1..Len(must_have) :
               /\ "aliases" \in DOMAIN must_have[n][2]
               /\ must_have[n][2].aliases = <<>>
               /\ Named(must_have[n][1])
  /\ hybrid_score.skill_analysis.detected_skills # <<>>

\* C23: the Skill Coverage component suggests the first three missing
\* must-have skills, in the order the taxonomy declares them, whenever a
\* must-have skill is missing; it suggests the first two missing nice-to-have
\* skills, in declaration order, only when must_have_coverage > 0.7; when
\* must_have_coverage <= 0.7 none of its suggestions names a nice-to-have
\* skill.
C23_CoverageSuggestions ==
  pc = "scored" =>
    LET role == DictAt(TAX, selected_role)
        sa == hybrid_score.skill_analysis
        suggestions == hybrid_score.skill_coverage.suggestions
        In(list, id) == \E n \in 1..Len(list) : list[n] = id
        must_missing ==
          SelectSeq(DictKeys(Get(role, "must_have", <<>>)),
                    LAMBDA id : In(sa.must_have_missing, id))
        nice_missing ==
          SelectSeq(DictKeys(Get(role, "nice_to_have", <<>>)),
                    LAMBDA id : In(sa.nice_to_have_missing, id))
        Names(ids) ==
          join(", ", [n \in 1..Len(ids) |-> title(replace(ids[n], "_", " "))])
        critical == "Add critical skills: " \o Names(Take(must_missing, 3))
        bonus == "Consider adding: " \o Names(Take(nice_missing, 2))
        high == RatLt(<<7, 10>>, must_have_coverage(sa))
        nice_ids == DictKeys(Get(role, "nice_to_have", <<>>))
    IN  /\ suggestions =
             (IF must_missing # <<>> THEN <<critical>> ELSE <<>>)
             \o (IF nice_missing # <<>> /\ high THEN <<bonus>> ELSE <<>>)
        /\ ~high =>
             \A n \in 1..Len(suggestions) :
                \A m \in 1..Len(nice_ids) :
                   ~contains(suggestions[n],
                             title(replace(nice_ids[m], "_", " ")))

\* three of four must-have skills are matched (coverage 0.75 > 0.7) and three
\* nice-to-have skills are missing: the component suggests the missing
\* must-have skill and the first two missing nice-to-have skills
C23_Witness ==
  /\ pc = "scored"
  /\ Len(hybrid_score.skill_analysis.must_have_matched) = 3
  /\ Len(hybrid_score.skill_analysis.must_have_missing) = 1
  /\ Len(hybrid_score.skill_analysis.nice_to_have_missing) = 3
  /\ hybrid_score.skill_coverage.suggestions
       = <<"Add critical skills: Docker", "Consider adding: Excel, Kubernetes">>

\* C24: the Impact Quality score lies in [0, 1] for every text, and the
\* penalty for weak phrases never exceeds 0.4: with the counts the component
\* reports, the score is at least min(1, strong/8)/2 + min(1, metrics/5)/2
\* - 0.4, however many weak phrases there are.
C24_ImpactScoreBounded ==
  pc = "scored" =>
    LET score == hybrid_score.impact_quality.score
        details == hybrid_score.impact_quality.details
        a == find(details, " strong verbs, ")
        b == find(details, " metrics, ")
        Number(str) == CHOOSE k \in 0..(5 * Len(resume_text)) : ToString(k) = str
        strong_count == Number(Slice(details, 0, a))
        metric_count == Number(Slice(details, a + 15, b))
        rewards == RatAdd(RatMul(RatMin(One, Rat(strong_count, 8)), <<1, 2>>),
                          RatMul(RatMin(One, Rat(metric_count, 5)), <<1, 2>>))
    IN  /\ RatLe(Zero, score)
        /\ RatLe(score, One)
        /\ RatLe(RatSub(rewards, <<2, 5>>), score)

\* nine strong verbs, six metrics and six weak phrases: full rewards, and the
\* penalty is 0.3 where six times 0.1 would be 0.6
C24_Witness ==
  /\ pc = "scored"
  /\ hybrid_score.impact_quality.details
       = "9 strong verbs, 6 metrics, 6 weak phrases"
  /\ hybrid_score.impact_quality.score = <<7, 10>>

C26_ExtractedTextIsOneOtherSection ==
  /\ pc \in {"start", "parsed", "scored", "done"} =>
       /\ Len(resume_text) >= 200
       /\ resume_text = extract_any(file_bytes).text
       /\ \A i \in 0..(Len(resume_text) - 1) :
             /\ At(resume_text, i) \in Space => At(resume_text, i) = " "
             /\ At(resume_text, i) = " " =>
                  /\ 0 < i /\ i < Len(resume_text) - 1
                  /\ At(resume_text, i + 1) # " "
  /\ pc \in {"parsed", "scored", "done"} =>
       /\ Len(parsed_resume) = 1
       /\ parsed_resume[1].section_type = "other"
       /\ parsed_resume[1].heading = ""
       /\ parsed_resume[1].content = resume_text

\* the uploaded file has an Experience and a Projects heading on lines of
\* their own, and its text was parsed
C26_Witness ==
  /\ pc = "parsed"
  /\ {"experience", "projects"}
       \subseteq {parse_resume(file_bytes)[k].section_type :
                    k \in 1..Len(parse_resume(file_bytes))}
  /\ Len(parsed_resume) = 1

\* C27: for every resume that went through extract_any, parse_resume and
\* compute_hybrid_score, no detected skill is proven or listed-only and the
\* text of the Experience, Projects and Summary sections is empty, the
\* Evidence Strength and Impact Quality components score 0, final_score is
\* at most 0.7 and final_level is not Excellent.
C27_UploadScoresAtMostSeventy ==
  pc \in {"scored", "done"} =>
    LET detected == hybrid_score.skill_analysis.detected_skills IN
    /\ \A n \in 1..Len(detected) :
          ~is_proven(detected[n][2]) /\ ~is_only_listed(detected[n][2])
    /\ get_combined_text(hybrid_score.parsed_resume,
                         {"experience", "projects", "summary"}) = ""
    /\ hybrid_score.evidence_strength.score = Zero
    /\ hybrid_score.impact_quality.score = Zero
    /\ RatLe(final_score(hybrid_score), <<7, 10>>)
    /\ final_level(hybrid_score) # "Excellent"

\* the uploaded file, parsed as it is, names skills under Experience and has
\* strong verbs and a metric; after extraction the skills are still detected
\* and final_score is above 0.5
C27_Witness ==
  /\ pc = "scored"
  /\ hybrid_score.skill_analysis.detected_skills # <<>>
  /\ RatLt(Zero, calculate_impact_score(parse_resume(file_bytes)).score)
  /\ \E n \in 1..Len(analyze_skills_sectioned(parse_resume(file_bytes), DictAt(TAX, selected_role)).detected_skills) :
        is_proven(analyze_skills_sectioned(parse_resume(file_bytes), DictAt(TAX, selected_role)).detected_skills[n][2])
  /\ RatLt(<<1, 2>>, final_score(hybrid_score))

\* C28: in every SkillAnalysisResult the keys of detected_skills are the ids
\* of must_have_matched and nice_to_have_matched together, the priority of
\* each DetectedSkill is the tier of the matched list that holds its id, and
\* detected_skills has as many entries as the two matched lists together;
\* also for a role that declares a skill id in both tiers.
C28_DetectedSkillsAgreeWithMatched ==
  pc = "scored" =>
    LET sa == hybrid_score.skill_analysis
        detected == sa.detected_skills
        InList(list, id) == \E k \in 1..Len(list) : list[k] = id
    IN  /\ {detected[n][1] : n \in 1..Len(detected)}
             = {sa.must_have_matched[k] : k \in 1..Len(sa.must_have_matched)}
               \cup {sa.nice_to_have_matched[k] :
                       k \in 1..Len(sa.nice_to_have_matched)}
        /\ \A n \in 1..Len(detected) :
              /\ detected[n][2].skill_id = detected[n][1]
              /\ InList(sa.must_have_matched, detected[n][1])
                   => detected[n][2].priority = "must_have"
              /\ InList(sa.nice_to_have_matched, detected[n][1])
                   => detected[n][2].priority = "nice_to_have"
        /\ Len(detected)
             = Len(sa.must_have_matched) + Len(sa.nice_to_have_matched)

\* C29: no DetectedSkill is both proven and listed-only, and one whose
\* evidence lies only in Education, Awards, Publications, Contact or Other
\* sections is neither; so the proven and the listed-only skills together are
\* at most the detected skills, proven ratio + 0.5 * listed-only ratio is at
\* most 1, and the Evidence Strength score is that sum, never cut by its cap.
C29_ProvenAndListedExclusive ==
  pc = "scored" =>
    LET detected == hybrid_score.skill_analysis.detected_skills
        total == Len(detected)
        Types(n) == {detected[n][2].evidence_list[e].section_type :
                       e \in 1..Len(detected[n][2].evidence_list)}
        proven_count == Cardinality({n \in 1..total : is_proven(detected[n][2])})
        listed_only_count ==
          Cardinality({n \in 1..total : is_only_listed(detected[n][2])})
    IN  /\ \A n \in 1..total :
              /\ ~(is_proven(detected[n][2]) /\ is_only_listed(detected[n][2]))
              /\ Types(n) \subseteq {"education", "awards", "publications",
                                     "contact", "other"}
                   => /\ ~is_proven(detected[n][2])
                      /\ ~is_only_listed(detected[n][2])
        /\ proven_count + listed_only_count <= total
        /\ total > 0 =>
             /\ RatLe(RatAdd(Rat(proven_count, total),
                             Rat(listed_only_count, 2 * total)), One)
             /\ hybrid_score.evidence_strength.score
                  = RatAdd(Rat(proven_count, total),
                           Rat(listed_only_count, 2 * total))

\* a skill with evidence in the Contact section and in a Skills section is
\* neither proven nor listed-only, next to one that is listed-only
C29_Witness ==
  /\ pc = "scored"
  /\ LET detected == hybrid_score.skill_analysis.detected_skills IN
     /\ \E n \in 1..Len(detected) :
           /\ ~is_proven(detected[n][2])
           /\ ~is_only_listed(detected[n][2])
           /\ \E e \in 1..Len(detected[n][2].evidence_list) :
                 detected[n][2].evidence_list[e].section_type = "contact"
     /\ \E n \in 1..Len(detected) : is_only_listed(detected[n][2])

\* C30: get_section_balance reports, for each section type of the parsed
\* resume, the percentage of all section words that lie in sections of that
\* type, rounded to one decimal, so that the percentages add up to 100 within
\* the rounding (0.05 per reported type) whenever the resume has words; also
\* when two sections have the same type.
C30_SectionBalanceSumsToHundred ==
  pc = "checked" =>
    LET balance == ats_check.balance
        total_words == TotalWords(parsed_resume, 1)
        types == {parsed_resume[n].section_type : n \in 1..Len(parsed_resume)}
        WordsOf(t) == TotalWords(SelectSeq(parsed_resume,
                                           LAMBDA s : s.section_type = t), 1)
        RECURSIVE Sum(_)
        Sum(n) == IF n > Len(balance) THEN Zero
                  ELSE RatAdd(balance[n][2], Sum(n + 1))
    IN  total_words > 0 =>
          /\ {balance[n][1] : n \in 1..Len(balance)} = types
          /\ \A n \in 1..Len(balance) :
                /\ RatLe(RatSub(Rat(100 * WordsOf(balance[n][1]), total_words),
                                <<1, 20>>), balance[n][2])
                /\ RatLe(balance[n][2],
                         RatAdd(Rat(100 * WordsOf(balance[n][1]), total_words),
                                <<1, 20>>))
          /\ RatLe(RatSub(<<100, 1>>, Rat(Len(balance), 20)), Sum(1))
          /\ RatLe(Sum(1), RatAdd(<<100, 1>>, Rat(Len(balance), 20)))
====
